---- MODULE Spec2Model ----
(***************************************************************************)
(* A model of bud (github.com/mskutin/bud): the policy resolver, the       *)
(* recommendation engine, the bulk cost/budget fetches with their worker   *)
(* pools, and the orchestration loop of runAnalysis.                       *)
(*                                                                         *)
(* Numbers.  Go float64 money amounts are modelled as integers counting    *)
(* cents; percentages are integers; a quotient that need not be integral   *)
(* (the adjustment percent) is an exact fraction [num, den].  The inputs   *)
(* are whole-dollar amounts and whole percents, so every product below is  *)
(* exact.                                                                  *)
(***************************************************************************)
EXTENDS Integers, Sequences, FiniteSets, TLC

VARIABLES
    \* --- recommendation engine (SpecRec) ---
    comparison,       \* *types.BudgetComparison passed to the recommender
    statistics,       \* *types.SpendStatistics passed to the recommender
    policy,           \* types.RecommendationPolicy passed to the recommender
    recommendation,   \* what GenerateRecommendationWithPolicy returned
    \* --- policy resolver (SpecPolicy, SpecMerge) ---
    resolver,         \* *policy.Resolver: config, defaultPolicy, caches
    accountID,        \* the argument of the last ResolvePolicy call
    resolved,         \* what ResolvePolicy returned
    mergeArgs,        \* the arguments of mergePolicy
    merged,           \* what mergePolicy returned
    \* --- bulk fetch (SpecFetch) ---
    fetchKind,        \* "cost" or "budget": which bulk fetch is running
    accounts,         \* []types.AccountInfo submitted
    concurrency,      \* the concurrency argument
    maxRetries,       \* Client.maxRetries
    ctxDone,          \* the context has been cancelled
    pc,               \* position of the goroutine that called the bulk fetch
    sent,             \* number of index tokens sent so far
    jobs,             \* content of the buffered channel jobs
    jobsClosed,       \* close(jobs) has been executed
    wg,               \* counter of the WaitGroup
    workers,          \* per worker goroutine: position and locals
    mu,               \* holder of the budget mutex, 0 when free
    costResults,      \* results slice of the cost fetch
    budgetResults,    \* results map of the budget fetch
    calls,            \* per account index: remote calls issued
    sleeps,           \* per account index: backoff sleeps started
    log,              \* per account index: errors of the returned calls
    writes,           \* per account index: writes of its result slot
    callbacks,        \* invocations of the progress callback
    \* --- runAnalysis (Spec); it shares accounts, ctxDone and resolver ---
    runPc,            \* position of runAnalysis
    cfg,              \* types.AnalysisConfig and the policy configuration
    costData,         \* what the cost fetch returned
    budgetData,       \* what the budget fetch returned
    cursor,           \* elements of costData the analysis loop has consumed
    result,           \* *types.AnalysisResult, nil before it is allocated
    runErr,           \* the error runAnalysis returned
    output,           \* what the run printed: the report and the error list
    ops,              \* the remote phases and calls issued, in order
    \* --- a single call of a pure function (SpecPriority, ...) ---
    call,             \* the function called and its arguments
    ret               \* what the call returned, nil before it returns

recVars == <<comparison, statistics, policy, recommendation>>

polVars == <<resolver, accountID, resolved, mergeArgs, merged>>

runVars == <<runPc, cfg, costData, budgetData, cursor, result, runErr,
             output, ops>>

pureVars == <<call, ret>>

notFetchVars == <<comparison, statistics, policy, recommendation,
                  resolver, accountID, resolved, mergeArgs, merged,
                  runPc, cfg, costData, budgetData, cursor, result, runErr,
                  output, ops, call, ret>>

fetchVars == <<fetchKind, accounts, concurrency, maxRetries, ctxDone, pc,
               sent, jobs, jobsClosed, wg, workers, mu, costResults,
               budgetResults, calls, sleeps, log, writes, callbacks>>

vars == <<comparison, statistics, policy, recommendation,
          resolver, accountID, resolved, mergeArgs, merged,
          fetchKind, accounts, concurrency, maxRetries, ctxDone, pc,
          sent, jobs, jobsClosed, wg, workers, mu, costResults,
          budgetResults, calls, sleeps, log, writes, callbacks,
          runPc, cfg, costData, budgetData, cursor, result, runErr,
          output, ops, call, ret>>

----------------------------------------------------------------------------
(* Integer helpers *)

Abs(x) == IF x < 0 THEN -x ELSE x

Sign(x) == IF x < 0 THEN -1 ELSE IF x > 0 THEN 1 ELSE 0

RECURSIVE Gcd(_, _)
Gcd(a, b) == IF b = 0 THEN a ELSE Gcd(b, a % b)

\* an exact fraction in lowest terms with a positive denominator
Frac(n, d) ==
    LET g == Gcd(Abs(n), Abs(d))
        s == IF d < 0 THEN -1 ELSE 1
    IN  [num |-> (s * n) \div g, den |-> (s * d) \div g]

FracAbs(f) == [num |-> Abs(f.num), den |-> f.den]

\* f > g for fractions with positive denominators
FracGT(f, g) == f.num * g.den > g.num * f.den

\* math.Round(n / d): nearest integer, halves away from zero
MathRound(n, d) ==
    Sign(n) * Sign(d) * ((2 * Abs(n) + Abs(d)) \div (2 * Abs(d)))

----------------------------------------------------------------------------
(* pkg/types: enumerations and nil values *)

PriorityHigh == "high"
PriorityMedium == "medium"
PriorityLow == "low"

StatusOverBudget == "over-budget"
StatusUnderUtilized == "under-utilized"
StatusAppropriate == "appropriate"
StatusNoBudget == "no-budget"

TrendIncreasing == "increasing"
TrendDecreasing == "decreasing"
TrendStable == "stable"

\* a nil pointer; every pointer-typed record carries the field "nil"
Nil == [nil |-> TRUE]

\* a *float64: absent, or present with a value
NoFloat == [present |-> FALSE, value |-> 0]
SomeFloat(v) == [present |-> TRUE, value |-> v]

\* An error is its message, a sequence of words; a wrapped error keeps the
\* words of its cause after its own.
NoError == [nil |-> TRUE, text |-> <<>>, attempts |-> 0]

ErrorOf(text) == [nil |-> FALSE, text |-> text, attempts |-> 0]

----------------------------------------------------------------------------
(* internal/recommender *)

\* roundToIncrement with exact halves rounded towards zero
roundToIncrement_HalfDown(value, increment) == IF increment = 0 THEN value ELSE Sign(value) * Sign(increment) * ((2 * Abs(value) + Abs(increment) - 1) \div (2 * Abs(increment))) * increment

\* roundToIncrement rounds a value to the nearest increment
roundToIncrement(value, increment) ==
    IF increment = 0 THEN value
    ELSE MathRound(value, increment) * increment

\* determinePriority with the thresholds 50 and 20 included in the upper tier
determinePriority_Inclusive(cmp, adjustmentPercent) ==
    LET absAdjustment == FracAbs(adjustmentPercent)
    IN  IF cmp.Status = StatusOverBudget \/ ~FracGT(Frac(50, 1), absAdjustment)
        THEN PriorityHigh
        ELSE IF ~FracGT(Frac(20, 1), absAdjustment)
        THEN PriorityMedium
        ELSE PriorityLow

\* determinePriority that ranks an account without a budget low
determinePriority_NewIsLow(cmp, adjustmentPercent) ==
    LET absAdjustment == FracAbs(adjustmentPercent)
    IN  IF cmp.Status = StatusNoBudget THEN PriorityLow
        ELSE IF cmp.Status = StatusOverBudget
                \/ FracGT(absAdjustment, Frac(50, 1))
        THEN PriorityHigh
        ELSE IF FracGT(absAdjustment, Frac(20, 1))
        THEN PriorityMedium
        ELSE PriorityLow

\* determinePriority: over-budget or a large adjustment is high, a moderate
\* adjustment medium, anything else low
determinePriority(cmp, adjustmentPercent) ==
    LET absAdjustment == FracAbs(adjustmentPercent)
    IN  IF cmp.Status = StatusOverBudget \/ FracGT(absAdjustment, Frac(50, 1))
        THEN PriorityHigh
        ELSE IF FracGT(absAdjustment, Frac(20, 1))
        THEN PriorityMedium
        ELSE PriorityLow

\* generateJustification: the text is modelled by the parts it is built from
generateJustification(stats, recommendedBudget, growthBuffer) ==
    IF stats.MonthsAnalyzed = 0
    THEN [kind |-> "no-data", budget |-> recommendedBudget,
          rounded |-> FALSE, trend |-> ""]
    ELSE LET baseCalculation ==
                 (stats.PeakMonthlySpend * (100 + growthBuffer)) \div 100
         IN  [kind |-> "analysis", budget |-> baseCalculation,
              rounded |-> Abs(baseCalculation - recommendedBudget) > 1,
              trend |-> IF stats.Trend = TrendIncreasing THEN "increasing"
                        ELSE IF stats.Trend = TrendDecreasing THEN "decreasing"
                        ELSE ""]

\* the growth buffer without the 20 percent fallback
EffectiveGrowthBuffer_NoFallback(pol) == pol.GrowthBuffer

\* the growth buffer in use: 20 percent when the policy leaves it at zero
EffectiveGrowthBuffer(pol) ==
    IF pol.GrowthBuffer = 0 THEN 20 ELSE pol.GrowthBuffer

\* the budget computed from peak spend, floored, then rounded
RecommendedBudgetOf(stats, pol) ==
    LET growthBuffer == EffectiveGrowthBuffer(pol)
        raw == (stats.PeakMonthlySpend * (100 + growthBuffer)) \div 100
        floored == IF raw < pol.MinimumBudget THEN pol.MinimumBudget ELSE raw
    IN  IF pol.RoundingIncrement > 0
        THEN roundToIncrement(floored, pol.RoundingIncrement)
        ELSE floored

\* the adjustment with 0 instead of 100 for an account without a budget
AdjustmentOf_ZeroForNew(cmp, recommendedBudget) ==
    IF cmp.CurrentBudget.present /\ cmp.CurrentBudget.value > 0
    THEN Frac((recommendedBudget - cmp.CurrentBudget.value) * 100,
              cmp.CurrentBudget.value)
    ELSE Frac(0, 1)

\* the adjustment percent of a recommended budget against the current one
AdjustmentOf(cmp, recommendedBudget) ==
    IF cmp.CurrentBudget.present /\ cmp.CurrentBudget.value > 0
    THEN Frac((recommendedBudget - cmp.CurrentBudget.value) * 100,
              cmp.CurrentBudget.value)
    ELSE Frac(100, 1)

\* GenerateRecommendationWithPolicy: [err, rec]
GenerateRecommendationWithPolicy(cmp, stats, pol) ==
    IF cmp.nil THEN [err |-> "comparison cannot be nil", rec |-> Nil]
    ELSE IF stats.nil THEN [err |-> "statistics cannot be nil", rec |-> Nil]
    ELSE
      LET recommendedBudget == RecommendedBudgetOf(stats, pol)
          adjustment == AdjustmentOf(cmp, recommendedBudget)
      IN  [err |-> "",
           rec |-> [nil |-> FALSE,
                    AccountID |-> cmp.AccountID,
                    AccountName |-> cmp.AccountName,
                    CurrentBudget |-> cmp.CurrentBudget,
                    AverageSpend |-> cmp.AverageSpend,
                    PeakSpend |-> cmp.PeakSpend,
                    PolicyName |-> pol.Name,
                    RecommendedBudget |-> recommendedBudget,
                    AdjustmentPercent |-> adjustment,
                    Priority |-> determinePriority(cmp, adjustment),
                    Justification |->
                        generateJustification(stats, recommendedBudget,
                                              EffectiveGrowthBuffer(pol)),
                    BudgetAccessStatus |-> ""]]

\* the orders sort.Slice may leave: it is not a stable sort, so any
\* arrangement with no element before one of larger |adjustment| can result
SortedOrders(recommendations) ==
    LET n == Len(recommendations)
        mag(i) == FracAbs(recommendations[i].AdjustmentPercent)
    IN  { p \in [1..n -> 1..n] :
            /\ \A i, j \in 1..n : i # j => p[i] # p[j]
            /\ \A i \in 1..n : \A j \in 1..n :
                   i < j => ~FracGT(mag(p[j]), mag(p[i])) }

\* the caller's slice after a sort done in place
CallerSlice_InPlace(recommendations, sorted) == sorted

\* the caller's slice after the call: "copy(sorted, recommendations)" makes
\* the sort work on another backing array
CallerSlice(recommendations, sorted) == recommendations

\* PrioritizeRecommendations sorts a copy by |adjustment| descending; the
\* value is the set of slices the call can return
PrioritizeRecommendations(recommendations) ==
    { [i \in 1..Len(recommendations) |-> recommendations[p[i]]] :
        p \in SortedOrders(recommendations) }

----------------------------------------------------------------------------
(* internal/analyzer.  The average is sum/count; the series used below     *)
(* have sums divisible by their length, so the integer quotient is exact.  *)

\* a *float64 holding a percentage, an exact fraction
NoPercent == [present |-> FALSE, value |-> Frac(0, 1)]
SomePercent(f) == [present |-> TRUE, value |-> f]

RECURSIVE SumOver(_, _)
\* the sum of f[1..n]
SumOver(f, n) == IF n = 0 THEN 0 ELSE f[n] + SumOver(f, n - 1)

\* the peak taken from the first month only
PeakOf_First(monthlyCosts) == monthlyCosts[1].Amount

\* the largest and the smallest amount of a non-empty series
PeakOf(monthlyCosts) ==
    CHOOSE a \in {monthlyCosts[i].Amount : i \in 1..Len(monthlyCosts)} :
        \A i \in 1..Len(monthlyCosts) : monthlyCosts[i].Amount <= a

MinOf(monthlyCosts) ==
    CHOOSE a \in {monthlyCosts[i].Amount : i \in 1..Len(monthlyCosts)} :
        \A i \in 1..Len(monthlyCosts) : monthlyCosts[i].Amount >= a

\* calculateTrend: the least-squares slope against the 0-based month index,
\* compared with 5% of the average; |slope| < threshold is decided on
\* |numerator| / denominator < 0.05 * sumY / n, cross-multiplied
calculateTrend(monthlyCosts) ==
    IF Len(monthlyCosts) < 2 THEN TrendStable
    ELSE
      LET n == Len(monthlyCosts)
          sumX == SumOver([i \in 1..n |-> i - 1], n)
          sumY == SumOver([i \in 1..n |-> monthlyCosts[i].Amount], n)
          sumXY == SumOver([i \in 1..n |->
                               (i - 1) * monthlyCosts[i].Amount], n)
          sumX2 == SumOver([i \in 1..n |-> (i - 1) * (i - 1)], n)
          numerator == n * sumXY - sumX * sumY
          denominator == n * sumX2 - sumX * sumX
      IN  IF denominator = 0 THEN TrendStable
          ELSE IF 20 * n * Abs(numerator) * Sign(denominator)
                    < sumY * Abs(denominator)
          THEN TrendStable
          ELSE IF numerator * Sign(denominator) > 0 THEN TrendIncreasing
          ELSE TrendDecreasing

\* CalculateStatistics: [err, stats]
CalculateStatistics(cost) ==
    IF cost.nil
    THEN [err |-> ErrorOf(<<"cost data cannot be nil">>), stats |-> Nil]
    ELSE IF ~cost.Error.nil
    THEN [err |-> ErrorOf(<<"cost data contains error">> \o cost.Error.text),
          stats |-> Nil]
    ELSE IF Len(cost.MonthlyCosts) = 0
    THEN [err |-> NoError,
          stats |-> [nil |-> FALSE, AccountID |-> cost.AccountID,
                     AccountName |-> cost.AccountName,
                     AverageMonthlySpend |-> 0, PeakMonthlySpend |-> 0,
                     MinMonthlySpend |-> 0, CurrentMonthSpend |-> NoFloat,
                     Trend |-> TrendStable, MonthsAnalyzed |-> 0]]
    ELSE
      LET count == Len(cost.MonthlyCosts)
          sum == SumOver([i \in 1..count |-> cost.MonthlyCosts[i].Amount],
                         count)
      IN  [err |-> NoError,
           stats |-> [nil |-> FALSE, AccountID |-> cost.AccountID,
                      AccountName |-> cost.AccountName,
                      AverageMonthlySpend |-> sum \div count,
                      PeakMonthlySpend |-> PeakOf(cost.MonthlyCosts),
                      MinMonthlySpend |-> MinOf(cost.MonthlyCosts),
                      CurrentMonthSpend |->
                          SomeFloat(cost.MonthlyCosts[count].Amount),
                      Trend |-> calculateTrend(cost.MonthlyCosts),
                      MonthsAnalyzed |-> count]]

\* the status with the boundary 100 taken as over-budget
UtilizationStatus_Inclusive(utilization) == IF ~FracGT(Frac(100, 1), utilization) THEN StatusOverBudget ELSE IF FracGT(Frac(50, 1), utilization) THEN StatusUnderUtilized ELSE StatusAppropriate

\* "Determine status based on utilization"
UtilizationStatus(utilization) ==
    IF FracGT(utilization, Frac(100, 1)) THEN StatusOverBudget
    ELSE IF FracGT(Frac(50, 1), utilization) THEN StatusUnderUtilized
    ELSE StatusAppropriate

\* CompareToBudget: [err, cmp]; budgetConfig is Nil or [nil, val]
CompareToBudget(stats, budgetConfig) ==
    IF stats.nil
    THEN [err |-> ErrorOf(<<"statistics cannot be nil">>), cmp |-> Nil]
    ELSE
      LET base == [nil |-> FALSE, AccountID |-> stats.AccountID,
                   AccountName |-> stats.AccountName,
                   AverageSpend |-> stats.AverageMonthlySpend,
                   PeakSpend |-> stats.PeakMonthlySpend,
                   CurrentBudget |-> NoFloat,
                   UtilizationPercent |-> NoPercent,
                   Status |-> StatusNoBudget]
      IN  IF budgetConfig.nil THEN [err |-> NoError, cmp |-> base]
          ELSE
            LET limit == budgetConfig.val.LimitAmount
                utilization == Frac(stats.AverageMonthlySpend * 100, limit)
            IN  IF limit > 0
                THEN [err |-> NoError,
                      cmp |-> [base EXCEPT
                         !.CurrentBudget = SomeFloat(limit),
                         !.UtilizationPercent = SomePercent(utilization),
                         !.Status = UtilizationStatus(utilization)]]
                ELSE [err |-> NoError,
                      cmp |-> [base EXCEPT
                         !.CurrentBudget = SomeFloat(limit)]]

----------------------------------------------------------------------------
(* internal/policy *)

\* a Go map is a function whose domain is the set of keys present
EmptyMap == [k \in {} |-> 0]

HasKey(m, k) == k \in DOMAIN m

\* the last position of a list scan that hits, 0 when none does
FirstOf_Last(hits) == IF hits = {} THEN 0 ELSE CHOOSE i \in hits : \A j \in hits : j <= i

\* the first position of a list scan that hits, 0 when none does
FirstOf(hits) ==
    IF hits = {} THEN 0
    ELSE CHOOSE i \in hits : \A j \in hits : i <= j

\* NewResolver: the caches start empty
NewResolver(config, defaultPolicy) ==
    [config |-> config, defaultPolicy |-> defaultPolicy,
     accountToOU |-> EmptyMap, accountToTags |-> EmptyMap]

\* mergePolicy with every non-zero override applied, negative ones included
mergePolicy_NonZero(base, name, growthBuffer, minimumBudget, roundingIncrement) ==
    [Name |-> IF name # "" THEN name ELSE base.Name,
     GrowthBuffer |-> IF growthBuffer # 0 THEN growthBuffer
                      ELSE base.GrowthBuffer,
     MinimumBudget |-> IF minimumBudget # 0 THEN minimumBudget
                       ELSE base.MinimumBudget,
     RoundingIncrement |-> IF roundingIncrement # 0 THEN roundingIncrement
                           ELSE base.RoundingIncrement]

\* mergePolicy merges policy values with defaults (inheritance)
mergePolicy(base, name, growthBuffer, minimumBudget, roundingIncrement) ==
    [Name |-> IF name # "" THEN name ELSE base.Name,
     GrowthBuffer |-> IF growthBuffer > 0 THEN growthBuffer
                      ELSE base.GrowthBuffer,
     MinimumBudget |-> IF minimumBudget > 0 THEN minimumBudget
                       ELSE base.MinimumBudget,
     RoundingIncrement |-> IF roundingIncrement > 0 THEN roundingIncrement
                           ELSE base.RoundingIncrement]

MergeRule(r, rule) ==
    mergePolicy(r.defaultPolicy, rule.Name, rule.GrowthBuffer,
                rule.MinimumBudget, rule.RoundingIncrement)

\* step 1 of ResolvePolicy: the first account rule for the account
AccountMatch(r, id) ==
    FirstOf({i \in 1..Len(r.config.AccountPolicies) :
                r.config.AccountPolicies[i].Account = id})

\* strings.ToLower on the tag values of the model
ToLower(s) == IF s = "Prod" THEN "prod" ELSE s

\* step 2 with the values compared without regard to case
TagMatch_IgnoreCase(r, id) == IF HasKey(r.accountToTags, id) THEN FirstOf({i \in 1..Len(r.config.TagPolicies) : HasKey(r.accountToTags[id], r.config.TagPolicies[i].TagKey) /\ ToLower(r.accountToTags[id][r.config.TagPolicies[i].TagKey]) = ToLower(r.config.TagPolicies[i].TagValue)}) ELSE 0

\* step 2: the first tag rule whose key is in the cached tags with its value
TagMatch(r, id) ==
    IF HasKey(r.accountToTags, id)
    THEN LET tags == r.accountToTags[id]
         IN  FirstOf({i \in 1..Len(r.config.TagPolicies) :
                /\ HasKey(tags, r.config.TagPolicies[i].TagKey)
                /\ tags[r.config.TagPolicies[i].TagKey]
                     = r.config.TagPolicies[i].TagValue})
    ELSE 0

\* step 3 without the "ok" test: a missing cache entry reads as ""
OUMatch_ZeroValue(r, id) == FirstOf({i \in 1..Len(r.config.OUPolicies) : r.config.OUPolicies[i].OU = (IF HasKey(r.accountToOU, id) THEN r.accountToOU[id] ELSE "")})

\* step 3: the first OU rule for the cached OU of the account
OUMatch(r, id) ==
    IF HasKey(r.accountToOU, id)
    THEN LET ouID == r.accountToOU[id]
         IN  FirstOf({i \in 1..Len(r.config.OUPolicies) :
                r.config.OUPolicies[i].OU = ouID})
    ELSE 0

\* ResolvePolicy with the OU rules consulted before the tag rules
ResolvePolicy_OUBeforeTag(r, id) ==
    IF AccountMatch(r, id) # 0
    THEN MergeRule(r, r.config.AccountPolicies[AccountMatch(r, id)])
    ELSE IF OUMatch(r, id) # 0
    THEN MergeRule(r, r.config.OUPolicies[OUMatch(r, id)])
    ELSE IF TagMatch(r, id) # 0
    THEN MergeRule(r, r.config.TagPolicies[TagMatch(r, id)])
    ELSE r.defaultPolicy

\* ResolvePolicy determines which policy applies to an account
\* Priority: Account > Tag > OU > Default
ResolvePolicy(r, id) ==
    IF AccountMatch(r, id) # 0
    THEN MergeRule(r, r.config.AccountPolicies[AccountMatch(r, id)])
    ELSE IF TagMatch(r, id) # 0
    THEN MergeRule(r, r.config.TagPolicies[TagMatch(r, id)])
    ELSE IF OUMatch(r, id) # 0
    THEN MergeRule(r, r.config.OUPolicies[OUMatch(r, id)])
    ELSE r.defaultPolicy

\* a resolver that notes in the OU cache the accounts it had no entry for
ResolverAfter_CachesMiss(r, id) == IF HasKey(r.accountToOU, id) THEN r ELSE [r EXCEPT !.accountToOU = [k \in DOMAIN r.accountToOU \cup {id} |-> IF k = id THEN "" ELSE r.accountToOU[k]]]

\* a resolver whose mergePolicy writes the merge into the base it is given
ResolverAfter_SharedBase(r, id) == [r EXCEPT !.defaultPolicy = ResolvePolicy(r, id)]

\* the resolver after a call of ResolvePolicy: the method assigns no field
\* of r, reads the caches with the two-value form, which inserts nothing,
\* and mergePolicy works on "policy := base", a copy of a struct of scalars
ResolverAfter(r, id) == r

----------------------------------------------------------------------------
(* SpecRec: the recommendation engine applied to bounded inputs *)

PeakInputs == {0, 1000, 12300, 50000}
GrowthInputs == {-100, 0, 10, 20}
MinimumInputs == {-500, 0, 10000, 10400}
IncrementInputs == {-1000, 0, 1000, 2500}
BudgetInputs ==
    {NoFloat, SomeFloat(-5000), SomeFloat(0), SomeFloat(45000),
     SomeFloat(100000)}

StatisticsInputs ==
    {Nil} \cup
    { [nil |-> FALSE, AccountID |-> 1, AccountName |-> 101,
       AverageMonthlySpend |-> p, PeakMonthlySpend |-> p,
       MinMonthlySpend |-> p, CurrentMonthSpend |-> SomeFloat(p),
       Trend |-> t, MonthsAnalyzed |-> m] :
       p \in PeakInputs, t \in {TrendStable, TrendIncreasing}, m \in {0, 3} }

ComparisonInputs ==
    {Nil} \cup
    { [nil |-> FALSE, AccountID |-> 1, AccountName |-> 101,
       CurrentBudget |-> b, AverageSpend |-> 0, PeakSpend |-> 0,
       UtilizationPercent |-> NoFloat, Status |-> s] :
       b \in BudgetInputs, s \in {StatusOverBudget, StatusAppropriate} }

PolicyInputs ==
    { [Name |-> "Default", GrowthBuffer |-> g, MinimumBudget |-> m,
       RoundingIncrement |-> r] :
       g \in GrowthInputs, m \in MinimumInputs, r \in IncrementInputs }

NotCalled == [err |-> "not-called", rec |-> Nil]

RecInputs ==
    /\ comparison \in ComparisonInputs
    /\ statistics \in StatisticsInputs
    /\ policy \in PolicyInputs
    /\ recommendation = NotCalled

RecIdle ==
    /\ comparison = Nil
    /\ statistics = Nil
    /\ policy = [Name |-> "Default", GrowthBuffer |-> 20,
                 MinimumBudget |-> 1000, RoundingIncrement |-> 1000]
    /\ recommendation = NotCalled

Generate ==
    /\ recommendation = NotCalled
    /\ recommendation' =
           GenerateRecommendationWithPolicy(comparison, statistics, policy)
    /\ UNCHANGED <<comparison, statistics, policy>>
    /\ UNCHANGED <<polVars, fetchVars, runVars, pureVars>>

----------------------------------------------------------------------------
(* SpecPolicy: ResolvePolicy on bounded rule lists and metadata caches;    *)
(* SpecMerge: mergePolicy on bounded arguments                             *)

MaxRules == 2

DefaultPolicyInput ==
    [Name |-> "Default", GrowthBuffer |-> 20, MinimumBudget |-> 1000,
     RoundingIncrement |-> 1000]

AccountRuleInputs ==
    { [Account |-> 1, Name |-> "account-policy", GrowthBuffer |-> 30,
       MinimumBudget |-> 5000, RoundingIncrement |-> 500],
      [Account |-> 1, Name |-> "", GrowthBuffer |-> 0,
       MinimumBudget |-> 7000, RoundingIncrement |-> -1],
      [Account |-> 2, Name |-> "account-two", GrowthBuffer |-> 35,
       MinimumBudget |-> 0, RoundingIncrement |-> 0] }

TagRuleInputs ==
    { [TagKey |-> "env", TagValue |-> "prod", Name |-> "tag-policy",
       GrowthBuffer |-> 40, MinimumBudget |-> 6000, RoundingIncrement |-> 0],
      [TagKey |-> "env", TagValue |-> "prod", Name |-> "",
       GrowthBuffer |-> -5, MinimumBudget |-> 8000, RoundingIncrement |-> 0],
      [TagKey |-> "env", TagValue |-> "", Name |-> "tag-empty",
       GrowthBuffer |-> 45, MinimumBudget |-> 0, RoundingIncrement |-> 0] }

OURuleInputs ==
    { [OU |-> "ou-1", Name |-> "ou-policy", GrowthBuffer |-> 50,
       MinimumBudget |-> 0, RoundingIncrement |-> 2500],
      [OU |-> "", Name |-> "ou-empty", GrowthBuffer |-> 0,
       MinimumBudget |-> 9000, RoundingIncrement |-> 0] }

\* two different rules for the same OU
SameOURuleInputs ==
    { [OU |-> "ou-1", Name |-> "ou-policy", GrowthBuffer |-> 50,
       MinimumBudget |-> 0, RoundingIncrement |-> 2500],
      [OU |-> "ou-1", Name |-> "ou-second", GrowthBuffer |-> 55,
       MinimumBudget |-> 0, RoundingIncrement |-> 0] }

ListsOf(S) == UNION { [1..n -> S] : n \in 0..MaxRules }

ConfigInputs ==
    { [AccountPolicies |-> a, TagPolicies |-> t, OUPolicies |-> o] :
      a \in ListsOf(AccountRuleInputs), t \in ListsOf(TagRuleInputs),
      o \in ListsOf(OURuleInputs) \cup ListsOf(SameOURuleInputs) }

\* the metadata caches: account 1 may have any entry, account 2 has none
OUCacheInputs ==
    {EmptyMap} \cup { [k \in {1} |-> ou] : ou \in {"ou-1", "ou-2", ""} }

TagCacheInputs ==
    {EmptyMap} \cup
    { [k \in {1} |-> tags] :
      tags \in {EmptyMap} \cup
               { [t \in {"env"} |-> v] : v \in {"prod", "Prod", ""} } \cup
               { [t \in {"Env"} |-> "prod"] } }

QueryInputs == {1, 2}

NoPolicy == [Name |-> "", GrowthBuffer |-> 0, MinimumBudget |-> 0,
             RoundingIncrement |-> 0]

NoMergeArgs == [base |-> NoPolicy, name |-> "", growthBuffer |-> 0,
                minimumBudget |-> 0, roundingIncrement |-> 0, called |-> FALSE]

CallIdle ==
    /\ accountID = 0
    /\ resolved = NoPolicy
    /\ mergeArgs = NoMergeArgs
    /\ merged = NoPolicy

PolIdle ==
    /\ resolver = NewResolver([AccountPolicies |-> <<>>, TagPolicies |-> <<>>,
                               OUPolicies |-> <<>>], DefaultPolicyInput)
    /\ CallIdle

PolicyInputsInit ==
    /\ \E c \in ConfigInputs, ou \in OUCacheInputs, tg \in TagCacheInputs :
         resolver = [config |-> c, defaultPolicy |-> DefaultPolicyInput,
                     accountToOU |-> ou, accountToTags |-> tg]
    /\ accountID = 0
    /\ resolved = NoPolicy
    /\ mergeArgs = NoMergeArgs
    /\ merged = NoPolicy

\* a call r.ResolvePolicy(id)
Resolve ==
    /\ \E id \in QueryInputs :
         /\ accountID' = id
         /\ resolved' = ResolvePolicy(resolver, id)
         /\ resolver' = ResolverAfter(resolver, id)
    /\ UNCHANGED <<mergeArgs, merged>>
    /\ UNCHANGED <<recVars, fetchVars, runVars, pureVars>>

MergeBaseInputs ==
    { DefaultPolicyInput,
      [Name |-> "", GrowthBuffer |-> 0, MinimumBudget |-> 0,
       RoundingIncrement |-> 0] }

MergeNumberInputs == {-10, 0, 30}

MergeInputsInit ==
    /\ resolver = NewResolver([AccountPolicies |-> <<>>, TagPolicies |-> <<>>,
                               OUPolicies |-> <<>>], DefaultPolicyInput)
    /\ accountID = 0
    /\ resolved = NoPolicy
    /\ mergeArgs \in
         { [base |-> b, name |-> n, growthBuffer |-> g, minimumBudget |-> m,
            roundingIncrement |-> r, called |-> FALSE] :
           b \in MergeBaseInputs, n \in {"", "Custom"},
           g \in MergeNumberInputs, m \in MergeNumberInputs,
           r \in MergeNumberInputs }
    /\ merged = NoPolicy

\* a call r.mergePolicy(base, name, growthBuffer, minimumBudget, increment)
Merge ==
    /\ ~mergeArgs.called
    /\ mergeArgs' = [mergeArgs EXCEPT !.called = TRUE]
    /\ merged' = mergePolicy(mergeArgs.base, mergeArgs.name,
                             mergeArgs.growthBuffer, mergeArgs.minimumBudget,
                             mergeArgs.roundingIncrement)
    /\ UNCHANGED <<resolver, accountID, resolved>>
    /\ UNCHANGED <<recVars, fetchVars, runVars, pureVars>>

----------------------------------------------------------------------------
(* Error classification *)

\* contains checks if a string contains a substring
contains(s, substr) == \E i \in 1..Len(s) : s[i] = substr

\* isRetryableError without the network signatures
isRetryableError_NoNetwork(err) ==
    /\ ~err.nil
    /\ \/ contains(err.text, "ThrottlingException")
       \/ contains(err.text, "RequestLimitExceeded")
       \/ contains(err.text, "ServiceUnavailable")
       \/ contains(err.text, "InternalError")

\* isRetryableError determines if an error should be retried
isRetryableError(err) ==
    /\ ~err.nil
    /\ \/ contains(err.text, "ThrottlingException")
       \/ contains(err.text, "RequestLimitExceeded")
       \/ contains(err.text, "ServiceUnavailable")
       \/ contains(err.text, "InternalError")
       \/ contains(err.text, "connection")
       \/ contains(err.text, "timeout")

\* isAccessDeniedError checks if the error is an access denied error
isAccessDeniedError(err) ==
    /\ ~err.nil
    /\ \/ contains(err.text, "AccessDeniedException")
       \/ contains(err.text, "AccessDenied")

\* isNotFoundError checks if the error indicates no budgets exist
isNotFoundError(err) ==
    /\ ~err.nil
    /\ \/ contains(err.text, "NotFoundException")
       \/ contains(err.text, "NotFound")

BudgetAccessSuccess == "success"
BudgetAccessNotFound == "not_found"
BudgetAccessDenied == "access_denied"
BudgetAccessError == "error"

----------------------------------------------------------------------------
(* internal/costexplorer: GetAccountCosts *)

\* the error GetAccountCosts returns after attempt+1 failed calls
CostError(attempt, err) ==
    [nil |-> FALSE, text |-> <<"failed to get cost data">> \o err.text,
     attempts |-> attempt + 1]

\* the months of a response: entries without a period or with a start date
\* that does not parse are skipped, an amount that does not scan is 0
ParseResultsByTime(resultsByTime) ==
    LET kept == SelectSeq(resultsByTime,
                          LAMBDA e : e.hasStart /\ e.startValid)
    IN  [i \in 1..Len(kept) |->
            [Month |-> kept[i].month,
             Amount |-> IF kept[i].amountScans THEN kept[i].amount ELSE 0]]

\* the AccountCostData of a successful call
CostDataOf(account, resultsByTime) ==
    [nil |-> FALSE, AccountID |-> account.ID, AccountName |-> account.Name,
     MonthlyCosts |-> ParseResultsByTime(resultsByTime), Error |-> NoError]

\* the worker keeps a nil result for a failed account
CostFailureOf_Nil(account, err) == Nil

\* the AccountCostData the worker stores for a failed account
CostFailureOf(account, err) ==
    [nil |-> FALSE, AccountID |-> account.ID, AccountName |-> account.Name,
     MonthlyCosts |-> <<>>, Error |-> err]

BackoffCapMs == 60000

RECURSIVE Scaled(_, _)
\* baseMs * 2^attempt, computed in float64: the doubling is followed only
\* up to the first value above the cap, which is all the comparison with
\* the cap needs (for large attempts the float64 is huge or +Inf)
Scaled(baseMs, attempt) ==
    IF attempt = 0 \/ baseMs > BackoffCapMs \/ baseMs = 0 THEN baseMs
    ELSE Scaled(2 * baseMs, attempt - 1)

\* the capped exponential backoff, before the jitter
CappedBackoff(baseMs, attempt) ==
    IF Scaled(baseMs, attempt) > BackoffCapMs THEN BackoffCapMs
    ELSE Scaled(baseMs, attempt)

\* calculateBackoff with a jitter of +-50%
calculateBackoff_HalfJitter(baseMs, attempt, nano) ==
    (CappedBackoff(baseMs, attempt) * (1000 + 2 * nano)) \div 2000

\* calculateBackoff, in milliseconds; nano is time.Now().UnixNano() % 1000.
\* With m the capped backoff and jitter = m/4 the float64 value is
\* m - m/4 + 2*(m/4)*nano/1000 = m*(1500 + nano)/2000, and the conversion
\* time.Duration(backoffMs) drops its fraction
calculateBackoff(baseMs, attempt, nano) ==
    (CappedBackoff(baseMs, attempt) * (1500 + nano)) \div 2000

\* the retry decision of GetAccountCosts without the attempt limit
ShouldRetry_Unbounded(attempt, retries, err) == isRetryableError(err)

\* the retry decision of GetAccountCosts after a failed call
ShouldRetry(attempt, retries, err) ==
    attempt < retries /\ isRetryableError(err)

----------------------------------------------------------------------------
(* internal/budgets: GetAccountBudgets *)

\* parseBudgetConfig: the limit is scanned from text, 0 when it does not scan
\* (notification and subscriber details are not modelled)
parseBudgetConfig(account, budget) ==
    [AccountID |-> account.ID, AccountName |-> account.Name,
     BudgetName |-> budget.BudgetName,
     LimitAmount |-> IF budget.hasLimit /\ budget.limitScans
                     THEN budget.limit ELSE 0,
     AccessStatus |-> "", AccessError |-> NoError]

\* a marker config carrying an access outcome
MarkerConfig(account, status, err) ==
    [AccountID |-> account.ID, AccountName |-> account.Name,
     BudgetName |-> "", LimitAmount |-> 0,
     AccessStatus |-> status, AccessError |-> err]

\* the configs of one page, each marked success
PageConfigs(account, budgets) ==
    [i \in 1..Len(budgets) |->
        [parseBudgetConfig(account, budgets[i])
            EXCEPT !.AccessStatus = BudgetAccessSuccess]]

\* the failure branch of GetAccountBudgets with every failure marked "error"
BudgetFailureOf_AllError(account, err) == <<MarkerConfig(account, BudgetAccessError, err)>>

\* what GetAccountBudgets returns when a page fails
BudgetFailureOf(account, err) ==
    IF isAccessDeniedError(err)
    THEN <<MarkerConfig(account, BudgetAccessDenied, err)>>
    ELSE IF isNotFoundError(err)
    THEN <<MarkerConfig(account, BudgetAccessNotFound, NoError)>>
    ELSE <<MarkerConfig(account, BudgetAccessError, err)>>

\* GetAccountBudgets without the marker for an account with no budgets
BudgetSuccessOf_Empty(account, budgetConfigs) == budgetConfigs

\* what GetAccountBudgets returns after the last page
BudgetSuccessOf(account, budgetConfigs) ==
    IF Len(budgetConfigs) = 0
    THEN <<MarkerConfig(account, BudgetAccessNotFound, NoError)>>
    ELSE budgetConfigs

RECURSIVE ListBudgets(_, _, _, _)
\* the paginator loop of GetAccountBudgets from page k on, budgetConfigs
\* holding the configs of the earlier pages; pages are the answers of
\* paginator.NextPage in order, the last one without a next token
ListBudgets(account, pages, k, budgetConfigs) ==
    IF k > Len(pages) THEN BudgetSuccessOf(account, budgetConfigs)
    ELSE IF ~pages[k].err.nil THEN BudgetFailureOf(account, pages[k].err)
    ELSE ListBudgets(account, pages, k + 1,
                     budgetConfigs \o PageConfigs(account, pages[k].Budgets))

\* GetAccountBudgets (with the client's own credentials): the list and the
\* error value it returns
GetAccountBudgets(account, pages) ==
    [list |-> ListBudgets(account, pages, 1, <<>>), err |-> NoError]

----------------------------------------------------------------------------
(* The bulk fetches: GetAllAccountsCostsWithProgress and                   *)
(* GetAllAccountsBudgetsWithProgress                                       *)

MaxAccounts == 2
MaxConcurrency == 2
MaxRetries == 1
MaxPages == 2

AccountInfo(i) == [ID |-> 10 + i, Name |-> 100 + i]

AccountLists == { [i \in 1..n |-> AccountInfo(i)] : n \in 0..MaxAccounts }

\* what the remote services may answer in SpecFetch
FetchCostReplies ==
    { [err |-> ErrorOf(<<"ThrottlingException">>), ResultsByTime |-> <<>>],
      [err |-> ErrorOf(<<"dial", "timeout">>), ResultsByTime |-> <<>>],
      [err |-> ErrorOf(<<"AccessDeniedException">>), ResultsByTime |-> <<>>],
      [err |-> NoError,
       ResultsByTime |-> <<[hasStart |-> TRUE, startValid |-> TRUE,
                            month |-> 1, amountScans |-> TRUE,
                            amount |-> 10000]>>] }

FetchBudget == [BudgetName |-> "monthly", hasLimit |-> TRUE,
                limitScans |-> TRUE, limit |-> 50000]

FetchBudgetReplies ==
    { [err |-> ErrorOf(<<"AccessDeniedException">>), Budgets |-> <<>>,
       more |-> FALSE],
      [err |-> ErrorOf(<<"NotFoundException">>), Budgets |-> <<>>,
       more |-> FALSE],
      [err |-> ErrorOf(<<"ThrottlingException">>), Budgets |-> <<>>,
       more |-> FALSE],
      [err |-> NoError, Budgets |-> <<>>, more |-> FALSE],
      [err |-> NoError, Budgets |-> <<FetchBudget>>, more |-> FALSE],
      [err |-> NoError, Budgets |-> <<FetchBudget>>, more |-> TRUE] }

N == Len(accounts)

Workers == DOMAIN workers

IdleWorker == [pc |-> "recv", idx |-> 0, attempt |-> 0, acc |-> <<>>,
               late |-> FALSE]

\* the error of a remote call whose context is cancelled
CanceledError == ErrorOf(<<"context", "canceled">>)

\* the answers a remote call can get: a call issued on a cancelled context
\* fails with the context's error; one in flight when the context is
\* cancelled may still complete or fail with it
RepliesFor(worker, replies, canceled) ==
    IF worker.late THEN {canceled}
    ELSE IF ctxDone THEN replies \cup {canceled}
    ELSE replies

MapPut(m, k, v) == [x \in DOMAIN m \cup {k} |-> IF x = k THEN v ELSE m[x]]

FetchInit ==
    /\ fetchKind \in {"cost", "budget"}
    /\ accounts \in AccountLists
    /\ concurrency \in (-1)..MaxConcurrency
    /\ maxRetries \in 0..MaxRetries
    /\ ctxDone = FALSE
    /\ pc = "start"
    /\ sent = 0
    /\ jobs = <<>>
    /\ jobsClosed = FALSE
    /\ wg = 0
    /\ workers = <<>>
    /\ mu = 0
    /\ costResults = [i \in 1..Len(accounts) |-> Nil]
    /\ budgetResults = EmptyMap
    /\ calls = [i \in 1..Len(accounts) |-> 0]
    /\ sleeps = [i \in 1..Len(accounts) |-> 0]
    /\ log = [i \in 1..Len(accounts) |-> <<>>]
    /\ writes = [i \in 1..Len(accounts) |-> 0]
    /\ callbacks = 0

PoolIdle ==
    /\ fetchKind = "none"
    /\ concurrency = 0
    /\ maxRetries = 0
    /\ pc = "idle"
    /\ sent = 0
    /\ jobs = <<>>
    /\ jobsClosed = FALSE
    /\ wg = 0
    /\ workers = <<>>
    /\ mu = 0
    /\ costResults = <<>>
    /\ budgetResults = EmptyMap
    /\ calls = <<>>
    /\ sleeps = <<>>
    /\ log = <<>>
    /\ writes = <<>>
    /\ callbacks = 0

FetchIdle ==
    /\ accounts = <<>>
    /\ ctxDone = FALSE
    /\ PoolIdle

PureIdle ==
    /\ call = Nil
    /\ ret = Nil

RunIdle ==
    /\ runPc = "idle"
    /\ cfg = Nil
    /\ costData = <<>>
    /\ budgetData = EmptyMap
    /\ cursor = 0
    /\ result = Nil
    /\ runErr = NoError
    /\ output = Nil
    /\ ops = <<>>

mainVars == <<pc, sent, jobsClosed>>
envVars == <<fetchKind, accounts, concurrency, maxRetries>>
histVars == <<calls, sleeps, log, writes, callbacks>>

\* the cancellation signal is raised (cancel() of the signal goroutine)
Cancel ==
    /\ \/ pc \notin {"idle", "returned"}
       \/ runPc \notin {"idle", "returned", "panicked"}
    /\ ~ctxDone
    /\ ctxDone' = TRUE
    /\ UNCHANGED <<envVars, mainVars, jobs, wg, workers, mu, costResults,
                   budgetResults, histVars>>
    /\ UNCHANGED notFetchVars

\* a pool that starts one worker when the limit asks for none
StartWorkers_AtLeastOne(kind) ==
    /\ fetchKind = kind /\ pc = "start"
    /\ workers' = [w \in 1..(IF concurrency > 0 THEN concurrency ELSE 1) |->
                      IdleWorker]
    /\ wg' = IF concurrency > 0 THEN concurrency ELSE 1
    /\ pc' = "send"
    /\ UNCHANGED <<envVars, ctxDone, sent, jobs, jobsClosed, mu,
                   costResults, budgetResults, histVars>>
    /\ UNCHANGED notFetchVars

\* one goroutine per account instead of one per unit of the limit
StartWorkers_PerAccount(kind) ==
    /\ fetchKind = kind /\ pc = "start"
    /\ workers' = [w \in 1..N |-> IdleWorker]
    /\ wg' = N
    /\ pc' = "send"
    /\ UNCHANGED <<envVars, ctxDone, sent, jobs, jobsClosed, mu,
                   costResults, budgetResults, histVars>>
    /\ UNCHANGED notFetchVars

\* "for w := 0; w < concurrency; w++ { wg.Add(1); go func() ... }"
StartWorkers(kind) ==
    /\ fetchKind = kind /\ pc = "start"
    /\ workers' = [w \in 1..concurrency |-> IdleWorker]
    /\ wg' = IF concurrency > 0 THEN concurrency ELSE 0
    /\ pc' = "send"
    /\ UNCHANGED <<envVars, ctxDone, sent, jobs, jobsClosed, mu,
                   costResults, budgetResults, histVars>>
    /\ UNCHANGED notFetchVars

\* "jobs <- i": blocks while the buffer, of capacity len(accounts), is full
SendJob(kind) ==
    /\ fetchKind = kind /\ pc = "send"
    /\ sent < N
    /\ Len(jobs) < N
    /\ jobs' = Append(jobs, sent + 1)
    /\ sent' = sent + 1
    /\ UNCHANGED <<envVars, ctxDone, pc, jobsClosed, wg, workers, mu,
                   costResults, budgetResults, histVars>>
    /\ UNCHANGED notFetchVars

\* "close(jobs)" after the last send
CloseJobs(kind) ==
    /\ fetchKind = kind /\ pc = "send"
    /\ sent = N
    /\ jobsClosed' = TRUE
    /\ pc' = "wait"
    /\ UNCHANGED <<envVars, ctxDone, sent, jobs, wg, workers, mu,
                   costResults, budgetResults, histVars>>
    /\ UNCHANGED notFetchVars

\* "wg.Wait()" and the return of the results
WaitWorkers(kind) ==
    /\ fetchKind = kind /\ pc = "wait"
    /\ wg = 0
    /\ pc' = "returned"
    /\ UNCHANGED <<envVars, ctxDone, sent, jobs, jobsClosed, wg, workers, mu,
                   costResults, budgetResults, histVars>>
    /\ UNCHANGED notFetchVars

\* a receive that leaves the index in the channel the first time it is read
WorkerReceive_LeavesToken(kind, w) ==
    /\ fetchKind = kind
    /\ workers[w].pc = "recv"
    /\ jobs # <<>>
    /\ LET idx == Head(jobs)
       IN  /\ jobs' = IF calls[idx] = 0 THEN jobs ELSE Tail(jobs)
           /\ workers' = [workers EXCEPT ![w] =
                 [pc |-> "inflight", idx |-> idx, attempt |-> 0,
                  acc |-> <<>>, late |-> ctxDone]]
           /\ calls' = [calls EXCEPT ![idx] = @ + 1]
    /\ UNCHANGED <<envVars, ctxDone, mainVars, wg, mu, costResults,
                   budgetResults, sleeps, log, writes, callbacks>>
    /\ UNCHANGED notFetchVars

\* "for idx := range jobs" receives an index; the worker issues the first
\* remote call for that account
WorkerReceive(kind, w) ==
    /\ fetchKind = kind
    /\ workers[w].pc = "recv"
    /\ jobs # <<>>
    /\ LET idx == Head(jobs)
       IN  /\ jobs' = Tail(jobs)
           /\ workers' = [workers EXCEPT ![w] =
                 [pc |-> "inflight", idx |-> idx, attempt |-> 0,
                  acc |-> <<>>, late |-> ctxDone]]
           /\ calls' = [calls EXCEPT ![idx] = @ + 1]
    /\ UNCHANGED <<envVars, ctxDone, mainVars, wg, mu, costResults,
                   budgetResults, sleeps, log, writes, callbacks>>
    /\ UNCHANGED notFetchVars

\* the worker leaves without wg.Done()
WorkerExit_NoDone(kind, w) ==
    /\ fetchKind = kind
    /\ workers[w].pc = "recv"
    /\ jobs = <<>> /\ jobsClosed
    /\ workers' = [workers EXCEPT ![w].pc = "done"]
    /\ UNCHANGED <<envVars, ctxDone, mainVars, jobs, wg, mu, costResults,
                   budgetResults, histVars>>
    /\ UNCHANGED notFetchVars

\* "range jobs" ends on the closed, drained channel; deferred wg.Done()
WorkerExit(kind, w) ==
    /\ fetchKind = kind
    /\ workers[w].pc = "recv"
    /\ jobs = <<>> /\ jobsClosed
    /\ workers' = [workers EXCEPT ![w].pc = "done"]
    /\ wg' = wg - 1
    /\ UNCHANGED <<envVars, ctxDone, mainVars, jobs, mu, costResults,
                   budgetResults, histVars>>
    /\ UNCHANGED notFetchVars

\* the progress callback invoked for successful cost outcomes only
WorkerCallback_SkipFailed(kind, w) ==
    /\ fetchKind = kind
    /\ workers[w].pc = "callback"
    /\ callbacks' = IF kind = "cost" /\ ~costResults[workers[w].idx].Error.nil
                    THEN callbacks ELSE callbacks + 1
    /\ workers' = [workers EXCEPT ![w] = IdleWorker]
    /\ UNCHANGED <<envVars, ctxDone, mainVars, jobs, wg, mu, costResults,
                   budgetResults, calls, sleeps, log, writes>>
    /\ UNCHANGED notFetchVars

\* the progress callback, then back to "range jobs"
WorkerCallback(kind, w) ==
    /\ fetchKind = kind
    /\ workers[w].pc = "callback"
    /\ callbacks' = callbacks + 1
    /\ workers' = [workers EXCEPT ![w] = IdleWorker]
    /\ UNCHANGED <<envVars, ctxDone, mainVars, jobs, wg, mu, costResults,
                   budgetResults, calls, sleeps, log, writes>>
    /\ UNCHANGED notFetchVars

\* GetCostAndUsage returns to GetAccountCosts: on success, or on an error
\* that is not retried, the worker stores the outcome in results[idx]; on a
\* retried error the backoff sleep starts
CostCallReturns(w, replies) ==
    /\ fetchKind = "cost"
    /\ workers[w].pc = "inflight"
    /\ \E reply \in RepliesFor(workers[w], replies,
                               [err |-> CanceledError, ResultsByTime |-> <<>>]) :
         LET idx == workers[w].idx
             attempt == workers[w].attempt
             account == accounts[idx]
         IN  /\ log' = [log EXCEPT ![idx] = Append(@, reply.err)]
             /\ IF reply.err.nil
                THEN /\ costResults' = [costResults EXCEPT ![idx] =
                                          CostDataOf(account,
                                                     reply.ResultsByTime)]
                     /\ writes' = [writes EXCEPT ![idx] = @ + 1]
                     /\ workers' = [workers EXCEPT ![w].pc = "callback"]
                     /\ UNCHANGED sleeps
                ELSE IF ShouldRetry(attempt, maxRetries, reply.err)
                THEN /\ workers' = [workers EXCEPT ![w].pc = "sleep"]
                     /\ sleeps' = [sleeps EXCEPT ![idx] = @ + 1]
                     /\ UNCHANGED <<costResults, writes>>
                ELSE /\ costResults' = [costResults EXCEPT ![idx] =
                                          CostFailureOf(account,
                                             CostError(attempt, reply.err))]
                     /\ writes' = [writes EXCEPT ![idx] = @ + 1]
                     /\ workers' = [workers EXCEPT ![w].pc = "callback"]
                     /\ UNCHANGED sleeps
    /\ UNCHANGED <<envVars, ctxDone, mainVars, jobs, wg, mu, budgetResults,
                   calls, callbacks>>
    /\ UNCHANGED notFetchVars

\* time.Sleep(backoff) ends; "continue" issues the next call
CostSleepDone(w) ==
    /\ fetchKind = "cost"
    /\ workers[w].pc = "sleep"
    /\ workers' = [workers EXCEPT ![w].pc = "inflight",
                                  ![w].attempt = @ + 1,
                                  ![w].late = ctxDone]
    /\ calls' = [calls EXCEPT ![workers[w].idx] = @ + 1]
    /\ UNCHANGED <<envVars, ctxDone, mainVars, jobs, wg, mu, costResults,
                   budgetResults, sleeps, log, writes, callbacks>>
    /\ UNCHANGED notFetchVars

\* paginator.NextPage returns to GetAccountBudgets: an error ends the
\* account with a marker, a page adds its budgets and either the next page
\* is requested or the listing ends
BudgetPageReturns(w, replies) ==
    /\ fetchKind = "budget"
    /\ workers[w].pc = "inflight"
    /\ \E reply \in RepliesFor(workers[w], replies,
                               [err |-> CanceledError, Budgets |-> <<>>,
                                more |-> FALSE]) :
         LET idx == workers[w].idx
             account == accounts[idx]
             configs == workers[w].acc \o PageConfigs(account, reply.Budgets)
         IN  /\ reply.more => workers[w].attempt + 1 < MaxPages
             /\ log' = [log EXCEPT ![idx] = Append(@, reply.err)]
             /\ IF ~reply.err.nil
                THEN /\ workers' = [workers EXCEPT ![w].pc = "lock",
                          ![w].acc = BudgetFailureOf(account, reply.err)]
                     /\ UNCHANGED calls
                ELSE IF reply.more
                THEN /\ workers' = [workers EXCEPT ![w].attempt = @ + 1,
                                                   ![w].acc = configs,
                                                   ![w].late = ctxDone]
                     /\ calls' = [calls EXCEPT ![idx] = @ + 1]
                ELSE /\ workers' = [workers EXCEPT ![w].pc = "lock",
                          ![w].acc = BudgetSuccessOf(account, configs)]
                     /\ UNCHANGED calls
    /\ UNCHANGED <<envVars, ctxDone, mainVars, jobs, wg, mu, costResults,
                   budgetResults, sleeps, writes, callbacks>>
    /\ UNCHANGED notFetchVars

\* mu.Lock()
BudgetLock(w) ==
    /\ fetchKind = "budget"
    /\ workers[w].pc = "lock"
    /\ mu = 0
    /\ mu' = w
    /\ workers' = [workers EXCEPT ![w].pc = "store"]
    /\ UNCHANGED <<envVars, ctxDone, mainVars, jobs, wg, costResults,
                   budgetResults, histVars>>
    /\ UNCHANGED notFetchVars

\* results[account.ID] = budgetConfigs; mu.Unlock()
BudgetStore(w) ==
    /\ fetchKind = "budget"
    /\ workers[w].pc = "store"
    /\ budgetResults' = MapPut(budgetResults, accounts[workers[w].idx].ID,
                               workers[w].acc)
    /\ writes' = [writes EXCEPT ![workers[w].idx] = @ + 1]
    /\ mu' = 0
    /\ workers' = [workers EXCEPT ![w].pc = "callback"]
    /\ UNCHANGED <<envVars, ctxDone, mainVars, jobs, wg, costResults,
                   calls, sleeps, log, callbacks>>
    /\ UNCHANGED notFetchVars



\* a step of the goroutine that runs the bulk fetch
MainStep ==
    \/ StartWorkers("cost") \/ StartWorkers("budget")
    \/ SendJob("cost") \/ SendJob("budget")
    \/ CloseJobs("cost") \/ CloseJobs("budget")
    \/ WaitWorkers("cost") \/ WaitWorkers("budget")

\* a step of worker goroutine w
WorkerStep(w) ==
    /\ w \in Workers
    /\ \/ WorkerReceive("cost", w) \/ WorkerReceive("budget", w)
       \/ WorkerExit("cost", w) \/ WorkerExit("budget", w)
       \/ WorkerCallback("cost", w) \/ WorkerCallback("budget", w)
       \/ CostCallReturns(w, FetchCostReplies)
       \/ CostSleepDone(w)
       \/ BudgetPageReturns(w, FetchBudgetReplies)
       \/ BudgetLock(w)
       \/ BudgetStore(w)

FetchNext ==
    \/ Cancel
    \/ StartWorkers("cost") \/ StartWorkers("budget")
    \/ SendJob("cost") \/ SendJob("budget")
    \/ CloseJobs("cost") \/ CloseJobs("budget")
    \/ WaitWorkers("cost") \/ WaitWorkers("budget")
    \/ \E w \in Workers :
         \/ WorkerReceive("cost", w) \/ WorkerReceive("budget", w)
         \/ WorkerExit("cost", w) \/ WorkerExit("budget", w)
         \/ WorkerCallback("cost", w) \/ WorkerCallback("budget", w)
         \/ CostCallReturns(w, FetchCostReplies)
         \/ CostSleepDone(w)
         \/ BudgetPageReturns(w, FetchBudgetReplies)
         \/ BudgetLock(w)
         \/ BudgetStore(w)

----------------------------------------------------------------------------
(* internal/policy: ValidateOUs and LoadAccountMetadata *)

\* an entry of the log of remote phases and calls
Op(name, arg, err) == [op |-> name, arg |-> arg, err |-> err]

\* ValidateOUs that reports no failure
ValidateOUs_Lenient(ouIDs, replies) == NoError

\* ValidateOUs: the error of the first OU whose description fails; the OUs
\* after it are not looked up
ValidateOUs(ouIDs, replies) ==
    LET k == FirstOf({i \in 1..Len(ouIDs) : ~replies[i].nil})
    IN  IF k = 0 THEN NoError
        ELSE ErrorOf(<<"OU", ouIDs[k], "does not exist or is not accessible">>
                     \o replies[k].text)

\* the DescribeOrganizationalUnit calls ValidateOUs makes: one per OU in
\* list order, the first failing one being the last
DescribeCalls(ouIDs, replies) ==
    LET k == FirstOf({i \in 1..Len(ouIDs) : ~replies[i].nil})
        n == IF k = 0 THEN Len(ouIDs) ELSE k
    IN  [i \in 1..n |->
            Op("DescribeOrganizationalUnit", ouIDs[i], replies[i])]

RECURSIVE TagMapOf(_, _)
\* the tag map built from the first n tags: nil keys or values are skipped,
\* a later tag overwrites an earlier one with the same key
TagMapOf(tags, n) ==
    IF n = 0 THEN EmptyMap
    ELSE IF tags[n].hasKey /\ tags[n].hasValue
    THEN MapPut(TagMapOf(tags, n - 1), tags[n].Key, tags[n].Value)
    ELSE TagMapOf(tags, n - 1)

\* one iteration in which the tags are looked up whatever ListParents said
LoadOneAccount_TagsAnyway(r, account, reply) ==
    LET withOU ==
          IF /\ reply.parentsErr.nil
             /\ Len(reply.Parents) > 0 /\ reply.Parents[1].hasId
          THEN [r EXCEPT !.accountToOU =
                             MapPut(@, account.ID, reply.Parents[1].Id)]
          ELSE r
    IN  IF ~reply.tagsErr.nil THEN withOU
        ELSE [withOU EXCEPT !.accountToTags =
                 MapPut(@, account.ID,
                        TagMapOf(reply.Tags, Len(reply.Tags)))]

\* one iteration of LoadAccountMetadata: a failed lookup skips the rest of
\* the iteration
LoadOneAccount(r, account, reply) ==
    IF ~reply.parentsErr.nil THEN r
    ELSE
      LET withOU ==
            IF Len(reply.Parents) > 0 /\ reply.Parents[1].hasId
            THEN [r EXCEPT !.accountToOU =
                               MapPut(@, account.ID, reply.Parents[1].Id)]
            ELSE r
      IN  IF ~reply.tagsErr.nil THEN withOU
          ELSE [withOU EXCEPT !.accountToTags =
                   MapPut(@, account.ID,
                          TagMapOf(reply.Tags, Len(reply.Tags)))]

RECURSIVE LoadAccountMetadata_FailFast(_, _, _, _)
\* a load that gives up at the first account whose parents lookup fails
LoadAccountMetadata_FailFast(r, accs, replies, n) ==
    IF n = 0 THEN r
    ELSE IF \E k \in 1..n : ~replies[k].parentsErr.nil
    THEN LoadAccountMetadata_FailFast(r, accs, replies, n - 1)
    ELSE LoadOneAccount(LoadAccountMetadata_FailFast(r, accs, replies, n - 1),
                        accs[n], replies[n])

RECURSIVE LoadAccountMetadata(_, _, _, _)
\* LoadAccountMetadata over the first n accounts; it always returns nil
LoadAccountMetadata(r, accs, replies, n) ==
    IF n = 0 THEN r
    ELSE LoadOneAccount(LoadAccountMetadata(r, accs, replies, n - 1),
                        accs[n], replies[n])

\* the Organizations calls of one iteration: ListParents, then
\* ListTagsForResource unless ListParents failed
MetadataCallsOf(account, reply) ==
    IF ~reply.parentsErr.nil
    THEN <<Op("ListParents", account.ID, reply.parentsErr)>>
    ELSE <<Op("ListParents", account.ID, NoError),
           Op("ListTagsForResource", account.ID, reply.tagsErr)>>

RECURSIVE MetadataCalls(_, _, _)
\* the Organizations calls of LoadAccountMetadata over the first n accounts
MetadataCalls(accs, replies, n) ==
    IF n = 0 THEN <<>>
    ELSE MetadataCalls(accs, replies, n - 1)
         \o MetadataCallsOf(accs[n], replies[n])

----------------------------------------------------------------------------
(* cmd: runAnalysis.  The two bulk fetches are taken as single steps that  *)
(* return what their worker pools (SpecFetch) can return.                  *)

CostExplorerRetries == 3

\* the result of GetAccountCosts for an account whose calls all get `reply`
CostOutcomeOf(account, retries, reply) ==
    IF reply.err.nil THEN CostDataOf(account, reply.ResultsByTime)
    ELSE CostFailureOf(account,
            CostError(IF isRetryableError(reply.err) THEN retries ELSE 0,
                      reply.err))

\* GetAllAccountsCostsWithProgress: without workers every slot stays nil
GetAllAccountsCostsWithProgress(accs, conc, retries, replies) ==
    [i \in 1..Len(accs) |->
        IF conc <= 0 THEN Nil ELSE CostOutcomeOf(accs[i], retries, replies[i])]

\* the result of GetAccountBudgets for an account with a one-page listing
BudgetOutcomeOf(account, reply) ==
    IF reply.err.nil
    THEN BudgetSuccessOf(account, PageConfigs(account, reply.Budgets))
    ELSE BudgetFailureOf(account, reply.err)

\* GetAllAccountsBudgetsWithProgress: without workers the map stays empty
GetAllAccountsBudgetsWithProgress(accs, conc, replies) ==
    IF conc <= 0 THEN EmptyMap
    ELSE [id \in {accs[i].ID : i \in 1..Len(accs)} |->
            LET i == CHOOSE j \in 1..Len(accs) : accs[j].ID = id
            IN  BudgetOutcomeOf(accs[i], replies[i])]

\* "result := &types.AnalysisResult{...}"
NewAnalysisResult ==
    [nil |-> FALSE, Recommendations |-> <<>>, Errors |-> <<>>,
     AccountsAnalyzed |-> 0, AccountsWithBudgets |-> 0,
     AccountsWithoutBudgets |-> 0]

\* the error branch with the record left out
RecordError_Dropped(res, cost, err) == res

\* the error branch with a record that does not name the account
RecordError_Anonymous(res, cost, err) == [res EXCEPT !.Errors = Append(@, [AccountID |-> 0, AccountName |-> 0, Error |-> err])]

\* "result.Errors = append(result.Errors, types.AnalysisError{...})"
RecordError(res, cost, err) ==
    [res EXCEPT !.Errors =
        Append(@, [AccountID |-> cost.AccountID,
                   AccountName |-> cost.AccountName, Error |-> err])]

\* the budget the loop uses for an account: the first of its list, if any
FirstBudget(budgets, id) ==
    IF HasKey(budgets, id) /\ Len(budgets[id]) > 0
    THEN [nil |-> FALSE, val |-> budgets[id][1]]
    ELSE Nil

\* the status with every budget taken as retrieved
AccessStatusOf_Success(budgetConfig) == BudgetAccessSuccess

\* "budgetAccessStatus": not_found unless the account has a budget record
AccessStatusOf(budgetConfig) ==
    IF budgetConfig.nil THEN BudgetAccessNotFound
    ELSE budgetConfig.val.AccessStatus

\* the counters with every budget record taken as a retrieved budget
CountBudget_AnyRecord(res, budgetConfig) == IF ~budgetConfig.nil THEN [res EXCEPT !.AccountsWithBudgets = @ + 1] ELSE [res EXCEPT !.AccountsWithoutBudgets = @ + 1]

\* the budget counters of the loop body
CountBudget(res, budgetConfig) ==
    IF ~budgetConfig.nil /\ budgetConfig.val.AccessStatus = BudgetAccessSuccess
    THEN [res EXCEPT !.AccountsWithBudgets = @ + 1]
    ELSE [res EXCEPT !.AccountsWithoutBudgets = @ + 1]

\* the loop body reaches resolver.ResolvePolicy for this cost data
ReachesResolve(cost, budgets) ==
    /\ cost.Error.nil
    /\ CalculateStatistics(cost).err.nil
    /\ CompareToBudget(CalculateStatistics(cost).stats,
                       FirstBudget(budgets, cost.AccountID)).err.nil

\* the body of the analysis loop for a non-nil cost record
AnalyzeCost(res, cost, budgets, r) ==
    IF ~cost.Error.nil THEN RecordError(res, cost, cost.Error)
    ELSE
      LET st == CalculateStatistics(cost)
          budgetConfig == FirstBudget(budgets, cost.AccountID)
          budgetAccessStatus == AccessStatusOf(budgetConfig)
          counted == CountBudget(res, budgetConfig)
          cp == CompareToBudget(st.stats, budgetConfig)
          accountPolicy == ResolvePolicy(r, cost.AccountID)
          gen == GenerateRecommendationWithPolicy(cp.cmp, st.stats,
                                                  accountPolicy)
      IN  IF ~st.err.nil THEN RecordError(res, cost, st.err)
          ELSE IF ~cp.err.nil THEN RecordError(counted, cost, cp.err)
          ELSE IF gen.err # ""
          THEN RecordError(counted, cost, ErrorOf(<<gen.err>>))
          ELSE [counted EXCEPT
                  !.Recommendations =
                      Append(@, [gen.rec EXCEPT
                                   !.BudgetAccessStatus = budgetAccessStatus]),
                  !.AccountsAnalyzed = @ + 1]

\* --- inputs of Spec ---

RunConcurrencyInputs == {-1, 0, 5}

RunPolicyConfigs ==
    { [AccountPolicies |-> <<>>, TagPolicies |-> <<>>, OUPolicies |-> <<>>],
      [AccountPolicies |->
           <<[Account |-> AccountInfo(1).ID, Name |-> "account-policy",
              GrowthBuffer |-> 30, MinimumBudget |-> 5000,
              RoundingIncrement |-> 500]>>,
       TagPolicies |->
           <<[TagKey |-> "env", TagValue |-> "prod", Name |-> "tag-policy",
              GrowthBuffer |-> 40, MinimumBudget |-> 6000,
              RoundingIncrement |-> 0]>>,
       OUPolicies |->
           <<[OU |-> "ou-1", Name |-> "ou-policy", GrowthBuffer |-> 50,
              MinimumBudget |-> 0, RoundingIncrement |-> 2500]>>],
      [AccountPolicies |-> <<>>, TagPolicies |-> <<>>,
       OUPolicies |->
           <<[OU |-> "ou-2", Name |-> "ou-two", GrowthBuffer |-> 60,
              MinimumBudget |-> 0, RoundingIncrement |-> 0],
             [OU |-> "ou-1", Name |-> "ou-policy", GrowthBuffer |-> 50,
              MinimumBudget |-> 0, RoundingIncrement |-> 2500]>>] }

RunConfigInputs ==
    { [nil |-> FALSE, Concurrency |-> c, GrowthBuffer |-> 20,
       MinimumBudget |-> 1000, RoundingIncrement |-> 1000,
       CostExplorerRetries |-> CostExplorerRetries, policyConfig |-> p] :
      c \in RunConcurrencyInputs, p \in RunPolicyConfigs }

Month(m, amount) ==
    [hasStart |-> TRUE, startValid |-> TRUE, month |-> m,
     amountScans |-> TRUE, amount |-> amount]

\* what Cost Explorer may answer for an account in Spec
RunCostReplies ==
    { [err |-> ErrorOf(<<"ThrottlingException">>), ResultsByTime |-> <<>>],
      [err |-> NoError, ResultsByTime |-> <<>>],
      [err |-> NoError,
       ResultsByTime |-> <<Month(1, 10000), Month(2, 30000)>>] }

CanceledCostReply == [err |-> CanceledError, ResultsByTime |-> <<>>]

\* what Budgets may answer for an account in Spec
RunBudgetReplies ==
    { [err |-> ErrorOf(<<"AccessDeniedException">>), Budgets |-> <<>>],
      [err |-> ErrorOf(<<"ThrottlingException">>), Budgets |-> <<>>],
      [err |-> NoError, Budgets |-> <<>>],
      [err |-> NoError,
       Budgets |-> <<[BudgetName |-> "monthly", hasLimit |-> TRUE,
                      limitScans |-> TRUE, limit |-> 15000]>>],
      [err |-> NoError,
       Budgets |-> <<[BudgetName |-> "unset", hasLimit |-> FALSE,
                      limitScans |-> FALSE, limit |-> 0]>>] }

CanceledBudgetReply == [err |-> CanceledError, Budgets |-> <<>>]

\* what Organizations may answer to the two lookups of an account
RunMetadataReplies ==
    { [parentsErr |-> ErrorOf(<<"AccessDeniedException">>), Parents |-> <<>>,
       tagsErr |-> NoError, Tags |-> <<>>],
      [parentsErr |-> NoError,
       Parents |-> <<[hasId |-> TRUE, Id |-> "ou-1"]>>,
       tagsErr |-> NoError,
       Tags |-> <<[hasKey |-> TRUE, hasValue |-> TRUE, Key |-> "env",
                   Value |-> "prod"]>>] }

CanceledMetadataReply ==
    [parentsErr |-> CanceledError, Parents |-> <<>>,
     tagsErr |-> CanceledError, Tags |-> <<>>]

\* what Organizations may answer to DescribeOrganizationalUnit
RunDescribeReplies == {NoError, ErrorOf(<<"OrganizationalUnitNotFoundException">>)}

\* the replies of a phase: on a cancelled context every call fails with the
\* context's error
PhaseReplies(replies, canceled) ==
    IF ctxDone THEN {canceled} ELSE replies

RunInit ==
    /\ runPc = "start"
    /\ accounts \in AccountLists
    /\ ctxDone = FALSE
    /\ cfg \in RunConfigInputs
    /\ resolver = Nil
    /\ costData = <<>>
    /\ budgetData = EmptyMap
    /\ cursor = 0
    /\ result = Nil
    /\ runErr = NoError
    /\ output = Nil
    /\ ops = <<>>

poolVars == <<fetchKind, concurrency, maxRetries, pc, sent, jobs, jobsClosed, wg, workers, mu, costResults, budgetResults, calls, sleeps, log, writes, callbacks>>

callVars == <<accountID, resolved, mergeArgs, merged>>

\* what no step of runAnalysis changes
runFrame == <<recVars, callVars, poolVars, pureVars, accounts, cfg>>

\* "if len(accounts) == 0 { return ... }", then the resolver is created
Preflight ==
    /\ runPc = "start"
    /\ IF Len(accounts) = 0
       THEN /\ runPc' = "returned"
            /\ runErr' = ErrorOf(<<"no accounts to analyze">>)
            /\ UNCHANGED resolver
       ELSE /\ runPc' = "validate"
            /\ resolver' =
                 NewResolver(cfg.policyConfig,
                             [Name |-> "Default",
                              GrowthBuffer |-> cfg.GrowthBuffer,
                              MinimumBudget |-> cfg.MinimumBudget,
                              RoundingIncrement |-> cfg.RoundingIncrement])
            /\ UNCHANGED runErr
    /\ UNCHANGED <<ctxDone, costData, budgetData, cursor, result, output, ops>>
    /\ UNCHANGED runFrame

\* "Validate configured OUs exist"
ValidateConfiguredOUs ==
    /\ runPc = "validate"
    /\ LET ouIDs == [i \in 1..Len(cfg.policyConfig.OUPolicies) |->
                        cfg.policyConfig.OUPolicies[i].OU]
       IN  IF Len(ouIDs) = 0
           THEN /\ runPc' = "metadata"
                /\ UNCHANGED <<runErr, ops>>
           ELSE \E replies \in [1..Len(ouIDs) ->
                                  PhaseReplies(RunDescribeReplies,
                                               CanceledError)] :
                  /\ ops' = Append(ops, Op("ValidateOUs", "", NoError))
                            \o DescribeCalls(ouIDs, replies)
                  /\ IF ValidateOUs(ouIDs, replies).nil
                     THEN /\ runPc' = "metadata"
                          /\ UNCHANGED runErr
                     ELSE /\ runPc' = "returned"
                          /\ runErr' =
                               ErrorOf(<<"policy configuration error">>
                                       \o ValidateOUs(ouIDs, replies).text)
    /\ UNCHANGED <<ctxDone, resolver, costData, budgetData, cursor, result, output>>
    /\ UNCHANGED runFrame

\* "Load account metadata for policy resolution (only if needed)"
LoadMetadata ==
    /\ runPc = "metadata"
    /\ IF \/ Len(cfg.policyConfig.OUPolicies) > 0
          \/ Len(cfg.policyConfig.TagPolicies) > 0
       THEN \E replies \in [1..Len(accounts) ->
                              PhaseReplies(RunMetadataReplies,
                                           CanceledMetadataReply)] :
              /\ resolver' = LoadAccountMetadata(resolver, accounts, replies,
                                                 Len(accounts))
              /\ ops' = Append(ops, Op("LoadAccountMetadata", "", NoError))
       ELSE UNCHANGED <<resolver, ops>>
    /\ runPc' = "costs"
    /\ UNCHANGED <<ctxDone, costData, budgetData, cursor, result, runErr, output>>
    /\ UNCHANGED runFrame

\* "costData, err := costClient.GetAllAccountsCostsWithProgress(...)"; a
\* call that fails with the context's error tells that the context was
\* cancelled while the fetch ran
FetchCosts ==
    /\ runPc = "costs"
    /\ IF cfg.Concurrency <= 0
       THEN /\ costData' = GetAllAccountsCostsWithProgress(
                               accounts, cfg.Concurrency,
                               cfg.CostExplorerRetries, <<>>)
            /\ UNCHANGED ctxDone
       ELSE \E replies \in [1..Len(accounts) ->
                              RunCostReplies \cup {CanceledCostReply}] :
              /\ ctxDone => \A i \in 1..Len(accounts) :
                               replies[i] = CanceledCostReply
              /\ costData' = GetAllAccountsCostsWithProgress(
                                 accounts, cfg.Concurrency,
                                 cfg.CostExplorerRetries, replies)
              /\ ctxDone' = (ctxDone \/ \E i \in 1..Len(accounts) :
                                           replies[i] = CanceledCostReply)
    /\ ops' = Append(ops, Op("GetAllAccountsCosts", "", NoError))
    /\ runPc' = "budgets"
    /\ UNCHANGED <<resolver, budgetData, cursor, result, runErr, output>>
    /\ UNCHANGED runFrame

\* "budgetData, err := budgetClient.GetAllAccountsBudgetsWithProgress(...)",
\* then the result is allocated
FetchBudgets ==
    /\ runPc = "budgets"
    /\ IF cfg.Concurrency <= 0
       THEN /\ budgetData' = GetAllAccountsBudgetsWithProgress(
                                 accounts, cfg.Concurrency, <<>>)
            /\ UNCHANGED ctxDone
       ELSE \E replies \in [1..Len(accounts) ->
                              RunBudgetReplies \cup {CanceledBudgetReply}] :
              /\ ctxDone => \A i \in 1..Len(accounts) :
                               replies[i] = CanceledBudgetReply
              /\ budgetData' = GetAllAccountsBudgetsWithProgress(
                                   accounts, cfg.Concurrency, replies)
              /\ ctxDone' = (ctxDone \/ \E i \in 1..Len(accounts) :
                                           replies[i] = CanceledBudgetReply)
    /\ ops' = Append(ops, Op("GetAllAccountsBudgets", "", NoError))
    /\ result' = NewAnalysisResult
    /\ runPc' = "analyze"
    /\ UNCHANGED <<resolver, costData, cursor, runErr, output>>
    /\ UNCHANGED runFrame

\* one iteration of "for _, cost := range costData": the cancellation check,
\* then the body; a nil cost record makes "cost.Error" panic
AnalyzeAccount ==
    /\ runPc = "analyze"
    /\ cursor < Len(costData)
    /\ LET cost == costData[cursor + 1]
       IN  IF ctxDone
           THEN /\ runPc' = "returned"
                /\ runErr' = ErrorOf(<<"analysis cancelled">>)
                /\ UNCHANGED <<cursor, result, ops, resolver>>
           ELSE IF cost.nil
           THEN /\ runPc' = "panicked"
                /\ UNCHANGED <<cursor, result, runErr, ops, resolver>>
           ELSE /\ result' = AnalyzeCost(result, cost, budgetData, resolver)
                /\ cursor' = cursor + 1
                /\ ops' = IF ReachesResolve(cost, budgetData)
                          THEN Append(ops, Op("ResolvePolicy", "", NoError))
                          ELSE ops
                /\ resolver' = IF ReachesResolve(cost, budgetData)
                               THEN ResolverAfter(resolver, cost.AccountID)
                               ELSE resolver
                /\ UNCHANGED <<runPc, runErr>>
    /\ UNCHANGED <<ctxDone, costData, budgetData, output>>
    /\ UNCHANGED runFrame

\* after the loop: PrioritizeRecommendations, OutputReport, the error list
Finish ==
    /\ runPc = "analyze"
    /\ cursor = Len(costData)
    /\ \E sorted \in PrioritizeRecommendations(result.Recommendations) :
       \E reportErr \in {NoError, ErrorOf(<<"write", "failed">>)} :
         /\ result' = [result EXCEPT !.Recommendations = sorted]
         /\ IF reportErr.nil
            THEN /\ runErr' = NoError
                 /\ output' = [nil |-> FALSE, Recommendations |-> sorted,
                               errorsPrinted |-> TRUE,
                               Errors |-> result.Errors]
            ELSE /\ runErr' = ErrorOf(<<"failed to generate report">>
                                      \o reportErr.text)
                 /\ output' = [nil |-> FALSE, Recommendations |-> sorted,
                               errorsPrinted |-> FALSE, Errors |-> <<>>]
    /\ runPc' = "returned"
    /\ UNCHANGED <<ctxDone, resolver, costData, budgetData, cursor, ops>>
    /\ UNCHANGED runFrame

RunNext ==
    \/ Cancel
    \/ Preflight
    \/ ValidateConfiguredOUs
    \/ LoadMetadata
    \/ FetchCosts
    \/ FetchBudgets
    \/ AnalyzeAccount
    \/ Finish

----------------------------------------------------------------------------
(* Single calls of pure functions on bounded arguments *)

\* what a single call leaves alone
pureFrame == <<recVars, polVars, fetchVars, runVars, call>>

ElseIdle == RecIdle /\ PolIdle /\ FetchIdle /\ RunIdle

Returns(fn) == call.fn = fn /\ ~ret.nil

\* --- SpecPriority: determinePriority ---

StatusInputs ==
    {StatusOverBudget, StatusUnderUtilized, StatusAppropriate, StatusNoBudget}

\* adjustment percents from -62.5 to 62.5 in steps of one half
AdjustmentInputs == { Frac(n, 2) : n \in -125..125 }

PriorityInit ==
    /\ call \in { [fn |-> "determinePriority", nil |-> FALSE,
                    comparison |-> [nil |-> FALSE, Status |-> st],
                    adjustmentPercent |-> a] :
                  st \in StatusInputs, a \in AdjustmentInputs }
    /\ ret = Nil
    /\ ElseIdle

\* a call r.determinePriority(comparison, adjustmentPercent)
DeterminePriority ==
    /\ call.fn = "determinePriority" /\ ret.nil
    /\ ret' = [nil |-> FALSE,
               val |-> determinePriority(call.comparison,
                                         call.adjustmentPercent)]
    /\ UNCHANGED pureFrame

PriorityNext == DeterminePriority

SpecPriority == PriorityInit /\ [][PriorityNext]_vars

\* --- SpecPrioritize: PrioritizeRecommendations ---

MaxRecs == 3

PrioritizeAdjustments == {Frac(-30, 1), Frac(10, 1), Frac(30, 1), Frac(100, 1)}

\* recommendation i of an input carries AccountID i
PrioritizeInputs ==
    UNION { { [i \in 1..n |-> [nil |-> FALSE, AccountID |-> i,
                                AdjustmentPercent |-> a[i]]] :
              a \in [1..n -> PrioritizeAdjustments] } : n \in 0..MaxRecs }

PrioritizeInit ==
    /\ call \in { [fn |-> "PrioritizeRecommendations", nil |-> FALSE,
                    recommendations |-> recs] :
                  recs \in PrioritizeInputs }
    /\ ret = Nil
    /\ ElseIdle

\* a call r.PrioritizeRecommendations(recommendations): the sort works on a
\* copy, the caller's slice stays as it was
Prioritize ==
    /\ call.fn = "PrioritizeRecommendations" /\ ret.nil
    /\ \E sorted \in PrioritizeRecommendations(call.recommendations) :
         ret' = [nil |-> FALSE, val |-> sorted,
                 input |-> CallerSlice(call.recommendations, sorted)]
    /\ UNCHANGED pureFrame

PrioritizeNext == Prioritize

SpecPrioritize == PrioritizeInit /\ [][PrioritizeNext]_vars

\* --- SpecTrend: calculateTrend ---

MaxMonths == 4

AmountInputs == {0, 100, 102, 150, 250}

SeriesInputs ==
    UNION { { [i \in 1..n |-> [Month |-> i, Amount |-> a[i]]] :
              a \in [1..n -> AmountInputs] } : n \in 0..MaxMonths }

TrendInit ==
    /\ call \in { [fn |-> "calculateTrend", nil |-> FALSE,
                    monthlyCosts |-> m] : m \in SeriesInputs }
    /\ ret = Nil
    /\ ElseIdle

\* a call a.calculateTrend(monthlyCosts)
CalculateTrend ==
    /\ call.fn = "calculateTrend" /\ ret.nil
    /\ ret' = [nil |-> FALSE, val |-> calculateTrend(call.monthlyCosts)]
    /\ UNCHANGED pureFrame

TrendNext == CalculateTrend

SpecTrend == TrendInit /\ [][TrendNext]_vars

\* --- SpecStats: CalculateStatistics ---

\* the series whose mean is a whole number of cents
ExactMeanSeries ==
    { m \in SeriesInputs :
        Len(m) = 0 \/
        SumOver([i \in 1..Len(m) |-> m[i].Amount], Len(m)) % Len(m) = 0 }

CostDataInputs ==
    {Nil} \cup
    { CostFailureOf(AccountInfo(1), CostError(a, e)) :
        a \in {0, CostExplorerRetries},
        e \in {ErrorOf(<<"ThrottlingException">>),
                ErrorOf(<<"AccessDeniedException">>)} } \cup
    { [nil |-> FALSE, AccountID |-> AccountInfo(1).ID,
       AccountName |-> AccountInfo(1).Name, MonthlyCosts |-> m,
       Error |-> NoError] : m \in ExactMeanSeries }

StatsInit ==
    /\ call \in { [fn |-> "CalculateStatistics", nil |-> FALSE,
                    costData |-> c] : c \in CostDataInputs }
    /\ ret = Nil
    /\ ElseIdle

\* a call a.CalculateStatistics(costData)
CalcStatistics ==
    /\ call.fn = "CalculateStatistics" /\ ret.nil
    /\ ret' = [nil |-> FALSE, val |-> CalculateStatistics(call.costData)]
    /\ UNCHANGED pureFrame

StatsNext == CalcStatistics

SpecStats == StatsInit /\ [][StatsNext]_vars

\* --- SpecRound: roundToIncrement ---

MaxRoundValue == 150

RoundValueInputs == (-MaxRoundValue)..MaxRoundValue \cup {567}

RoundIncrementInputs == {-10, 0, 1, 3, 10, 50, 100}

RoundInit ==
    /\ call \in { [fn |-> "roundToIncrement", nil |-> FALSE, value |-> v,
                    increment |-> i] :
                  v \in RoundValueInputs, i \in RoundIncrementInputs }
    /\ ret = Nil
    /\ ElseIdle

\* a call r.roundToIncrement(value, increment)
RoundToIncrement ==
    /\ call.fn = "roundToIncrement" /\ ret.nil
    /\ ret' = [nil |-> FALSE,
               val |-> roundToIncrement(call.value, call.increment)]
    /\ UNCHANGED pureFrame

RoundNext == RoundToIncrement

SpecRound == RoundInit /\ [][RoundNext]_vars

\* --- SpecBudgets: GetAccountBudgets ---

UnscannedBudget == [BudgetName |-> "adhoc", hasLimit |-> TRUE,
                    limitScans |-> FALSE, limit |-> 0]

BudgetListInputs == {<<>>, <<FetchBudget>>, <<FetchBudget, UnscannedBudget>>}

BudgetErrorInputs ==
    { ErrorOf(<<"AccessDeniedException">>),
      ErrorOf(<<"AccessDenied", "NotFound">>),
      ErrorOf(<<"NotFoundException">>),
      ErrorOf(<<"ThrottlingException">>),
      CanceledError }

\* a page that is followed by another one
MorePages == { [err |-> NoError, Budgets |-> b, more |-> TRUE] :
               b \in BudgetListInputs }

\* a page that ends the listing: the last page or a failure
LastPages ==
    { [err |-> NoError, Budgets |-> b, more |-> FALSE] :
      b \in BudgetListInputs } \cup
    { [err |-> e, Budgets |-> <<>>, more |-> FALSE] : e \in BudgetErrorInputs }

\* the listings of up to MaxPages pages
PageInputs ==
    UNION { { [k \in 1..n |-> IF k < n THEN first[k] ELSE last] :
              first \in [1..(n - 1) -> MorePages], last \in LastPages } :
            n \in 1..MaxPages }

BudgetsInit ==
    /\ call \in { [fn |-> "GetAccountBudgets", nil |-> FALSE,
                    account |-> AccountInfo(i), pages |-> pages] :
                  i \in 1..MaxAccounts, pages \in PageInputs }
    /\ ret = Nil
    /\ ElseIdle

\* a call c.GetAccountBudgets(ctx, accountID, accountName)
GetBudgets ==
    /\ call.fn = "GetAccountBudgets" /\ ret.nil
    /\ ret' = [nil |-> FALSE,
               val |-> GetAccountBudgets(call.account, call.pages)]
    /\ UNCHANGED pureFrame

BudgetsNext == GetBudgets

SpecBudgets == BudgetsInit /\ [][BudgetsNext]_vars

\* --- SpecBackoff: calculateBackoff ---

MaxAttempt == 7

BackoffBaseInputs == {0, 1, 3, 1000, 2000}

BackoffAttemptInputs == 0..MaxAttempt \cup {20, 40}

\* every value time.Now().UnixNano() % 1000 can take
NanoInputs == 0..999

BackoffInit ==
    /\ call \in { [fn |-> "calculateBackoff", nil |-> FALSE, backoffMs |-> b,
                    attempt |-> a, nano |-> j] :
                  b \in BackoffBaseInputs, a \in BackoffAttemptInputs,
                  j \in NanoInputs }
    /\ ret = Nil
    /\ ElseIdle

\* a call c.calculateBackoff(attempt)
CalculateBackoff ==
    /\ call.fn = "calculateBackoff" /\ ret.nil
    /\ ret' = [nil |-> FALSE,
               val |-> calculateBackoff(call.backoffMs, call.attempt,
                                        call.nano)]
    /\ UNCHANGED pureFrame

BackoffNext == CalculateBackoff

SpecBackoff == BackoffInit /\ [][BackoffNext]_vars

\* --- SpecCompare: CompareToBudget ---

\* the limits of the retrieved budgets; 3 gives utilizations that are not
\* whole percents
LimitInputs == {-100, 0, 3, 10000}

\* averages below, at and above a half and the whole of the limit 10000
AverageInputs ==
    {-100, 0, 4999, 5000, 5001, 9999, 10000, 10001}

CompareStatisticsInputs ==
    {Nil} \cup
    { [nil |-> FALSE, AccountID |-> AccountInfo(1).ID,
       AccountName |-> AccountInfo(1).Name,
       AverageMonthlySpend |-> a, PeakMonthlySpend |-> IF a < 12300 THEN 12300 ELSE a,
       MinMonthlySpend |-> a, CurrentMonthSpend |-> SomeFloat(a),
       Trend |-> TrendStable, MonthsAnalyzed |-> 3] : a \in AverageInputs }

\* the budget handed to the comparison: none, a retrieved budget, or the
\* marker record of a listing that gave no budget
CompareBudgetInputs ==
    {Nil} \cup
    { [nil |-> FALSE,
       val |-> [MarkerConfig(AccountInfo(1), BudgetAccessSuccess, NoError)
                  EXCEPT !.BudgetName = "monthly", !.LimitAmount = l]] :
      l \in LimitInputs } \cup
    { [nil |-> FALSE, val |-> MarkerConfig(AccountInfo(1), st, NoError)] :
      st \in {BudgetAccessDenied, BudgetAccessNotFound, BudgetAccessError} }

CompareInit ==
    /\ call \in { [fn |-> "CompareToBudget", nil |-> FALSE,
                    statistics |-> st, budgetConfig |-> b] :
                  st \in CompareStatisticsInputs, b \in CompareBudgetInputs }
    /\ ret = Nil
    /\ ElseIdle

\* a call a.CompareToBudget(statistics, budgetConfig)
Compare ==
    /\ call.fn = "CompareToBudget" /\ ret.nil
    /\ ret' = [nil |-> FALSE,
               val |-> CompareToBudget(call.statistics, call.budgetConfig)]
    /\ UNCHANGED pureFrame

CompareNext == Compare

SpecCompare == CompareInit /\ [][CompareNext]_vars

\* --- SpecPipeline: CompareToBudget, then the recommendation ---

PipelineInit ==
    /\ call \in { [fn |-> "CompareAndRecommend", nil |-> FALSE,
                    statistics |-> st, budgetConfig |-> b, policy |-> pol] :
                  st \in StatisticsInputs, b \in CompareBudgetInputs,
                  pol \in PolicyInputs }
    /\ ret = Nil
    /\ ElseIdle

\* "comparison, err := analyzer.CompareToBudget(stats, budgetConfig)", then
\* "recommender.GenerateRecommendationWithPolicy(comparison, stats,
\* accountPolicy)" unless the comparison failed
CompareAndRecommend ==
    /\ call.fn = "CompareAndRecommend" /\ ret.nil
    /\ LET cp == CompareToBudget(call.statistics, call.budgetConfig)
           gen == GenerateRecommendationWithPolicy(cp.cmp, call.statistics,
                                                   call.policy)
       IN  ret' = IF ~cp.err.nil
                  THEN [nil |-> FALSE, failed |-> TRUE, cmp |-> Nil,
                        rec |-> Nil]
                  ELSE [nil |-> FALSE, failed |-> gen.err # "",
                        cmp |-> cp.cmp, rec |-> gen.rec]
    /\ UNCHANGED pureFrame

PipelineNext == CompareAndRecommend

SpecPipeline == PipelineInit /\ [][PipelineNext]_vars

\* --- LoadAccountMetadata ---

\* an account that is not in the list being loaded
OtherAccount == [ID |-> 99, Name |-> 199]

MetadataConfig ==
    [AccountPolicies |-> <<>>,
     TagPolicies |->
         <<[TagKey |-> "env", TagValue |-> "prod", Name |-> "tag-policy",
            GrowthBuffer |-> 40, MinimumBudget |-> 6000,
            RoundingIncrement |-> 0]>>,
     OUPolicies |->
         <<[OU |-> "ou-1", Name |-> "ou-policy", GrowthBuffer |-> 50,
            MinimumBudget |-> 0, RoundingIncrement |-> 2500]>>]

MetadataDefault ==
    [Name |-> "Default", GrowthBuffer |-> 20, MinimumBudget |-> 1000,
     RoundingIncrement |-> 1000]

\* the resolver before the load: fresh, or holding the entries of an earlier
\* load, of another account or of the first account of the list
ResolverInputs ==
    { [NewResolver(MetadataConfig, MetadataDefault) EXCEPT
          !.accountToOU = ou, !.accountToTags = tg] :
      ou \in {EmptyMap}, tg \in {EmptyMap} }
    \cup
    { [NewResolver(MetadataConfig, MetadataDefault) EXCEPT
          !.accountToOU = [k \in {id} |-> "ou-2"],
          !.accountToTags = [k \in {id} |-> [t \in {"env"} |-> "dev"]]] :
      id \in {OtherAccount.ID, AccountInfo(1).ID} }

ProdTag == [hasKey |-> TRUE, hasValue |-> TRUE, Key |-> "env", Value |-> "prod"]

\* what Organizations may answer to the two lookups of an account
MetadataReplyInputs ==
    { [parentsErr |-> ErrorOf(<<"AccessDeniedException">>), Parents |-> <<>>,
       tagsErr |-> NoError, Tags |-> <<ProdTag>>],
      [parentsErr |-> NoError,
       Parents |-> <<[hasId |-> TRUE, Id |-> "ou-1"]>>,
       tagsErr |-> ErrorOf(<<"ThrottlingException">>), Tags |-> <<>>],
      [parentsErr |-> NoError,
       Parents |-> <<[hasId |-> TRUE, Id |-> "ou-1"]>>,
       tagsErr |-> NoError, Tags |-> <<ProdTag>>],
      [parentsErr |-> NoError, Parents |-> <<>>,
       tagsErr |-> NoError, Tags |-> <<ProdTag>>],
      [parentsErr |-> NoError,
       Parents |-> <<[hasId |-> FALSE, Id |-> ""]>>,
       tagsErr |-> NoError,
       Tags |-> <<[hasKey |-> FALSE, hasValue |-> TRUE, Key |-> "",
                   Value |-> "prod"]>>] }

MetadataInit ==
    /\ \E r \in ResolverInputs, accs \in AccountLists :
       \E replies \in [1..Len(accs) -> MetadataReplyInputs] :
          call = [fn |-> "LoadAccountMetadata", nil |-> FALSE, r |-> r,
                  accounts |-> accs, replies |-> replies]
    /\ ret = Nil
    /\ ElseIdle

\* a call r.LoadAccountMetadata(ctx, cfg, accounts); "return nil"
LoadMetadataCall ==
    /\ call.fn = "LoadAccountMetadata" /\ ret.nil
    /\ ret' = [nil |-> FALSE,
               val |-> [r |-> LoadAccountMetadata(call.r, call.accounts,
                                                  call.replies,
                                                  Len(call.accounts)),
                        calls |-> MetadataCalls(call.accounts, call.replies,
                                                Len(call.accounts)),
                        err |-> NoError]]
    /\ UNCHANGED pureFrame

MetadataNext == LoadMetadataCall

SpecMetadata == MetadataInit /\ [][MetadataNext]_vars

----------------------------------------------------------------------------
(* Specifications *)

Init == RunInit /\ RecIdle /\ CallIdle /\ PoolIdle /\ PureIdle

Next == RunNext

Spec == Init /\ [][Next]_vars

RecInit == RecInputs /\ PolIdle /\ FetchIdle /\ RunIdle /\ PureIdle

RecNext == Generate

SpecRec == RecInit /\ [][RecNext]_vars

PolicyInit == PolicyInputsInit /\ RecIdle /\ FetchIdle /\ RunIdle /\ PureIdle

PolicyNext == Resolve

SpecPolicy == PolicyInit /\ [][PolicyNext]_vars

MergeInit == MergeInputsInit /\ RecIdle /\ FetchIdle /\ RunIdle /\ PureIdle

MergeNext == Merge

SpecMerge == MergeInit /\ [][MergeNext]_vars

FetchSpecInit == FetchInit /\ RecIdle /\ PolIdle /\ RunIdle /\ PureIdle

FetchSpecNext == FetchNext

SpecFetch == FetchSpecInit /\ [][FetchSpecNext]_vars

\* every goroutine that can take a step eventually takes one; every remote
\* call and every sleep eventually returns
FetchFairness ==
    /\ WF_vars(MainStep)
    /\ \A w \in 1..MaxConcurrency : WF_vars(WorkerStep(w))

SpecFetchLive == FetchSpecInit /\ [][FetchSpecNext]_vars /\ FetchFairness

----------------------------------------------------------------------------
(* Claims about the policy resolver *)

\* the field-level merge, stated field by field
IsMergeOf(p, base, name, growthBuffer, minimumBudget, roundingIncrement) ==
    /\ (name # "" => p.Name = name)
    /\ (name = "" => p.Name = base.Name)
    /\ (growthBuffer > 0 => p.GrowthBuffer = growthBuffer)
    /\ (growthBuffer <= 0 => p.GrowthBuffer = base.GrowthBuffer)
    /\ (minimumBudget > 0 => p.MinimumBudget = minimumBudget)
    /\ (minimumBudget <= 0 => p.MinimumBudget = base.MinimumBudget)
    /\ (roundingIncrement > 0 => p.RoundingIncrement = roundingIncrement)
    /\ (roundingIncrement <= 0
          => p.RoundingIncrement = base.RoundingIncrement)

IsMergeOfRule(p, base, rule) ==
    IsMergeOf(p, base, rule.Name, rule.GrowthBuffer, rule.MinimumBudget,
              rule.RoundingIncrement)

\* the rules of each kind that match the queried account, by position
AccountHits ==
    {i \in 1..Len(resolver.config.AccountPolicies) :
        resolver.config.AccountPolicies[i].Account = accountID}

TagHits ==
    {i \in 1..Len(resolver.config.TagPolicies) :
        /\ accountID \in DOMAIN resolver.accountToTags
        /\ resolver.config.TagPolicies[i].TagKey
             \in DOMAIN resolver.accountToTags[accountID]
        /\ resolver.accountToTags[accountID]
             [resolver.config.TagPolicies[i].TagKey]
             = resolver.config.TagPolicies[i].TagValue}

OUHits ==
    {i \in 1..Len(resolver.config.OUPolicies) :
        /\ accountID \in DOMAIN resolver.accountToOU
        /\ resolver.config.OUPolicies[i].OU = resolver.accountToOU[accountID]}

Least(S) == CHOOSE i \in S : \A j \in S : i <= j

\* C7: ResolvePolicy applies the priority Account > Tag > OU > Default: the
\* result is the merge of the account rule when one matches; otherwise of the
\* first matching tag rule; otherwise of the matching OU rule; otherwise it
\* is exactly the default policy.
C7_PriorityOrder ==
    accountID # 0 =>
      /\ (AccountHits # {} =>
            \E i \in AccountHits :
               IsMergeOfRule(resolved, resolver.defaultPolicy,
                             resolver.config.AccountPolicies[i]))
      /\ (AccountHits = {} /\ TagHits # {} =>
            IsMergeOfRule(resolved, resolver.defaultPolicy,
                          resolver.config.TagPolicies[Least(TagHits)]))
      /\ (AccountHits = {} /\ TagHits = {} /\ OUHits # {} =>
            \E i \in OUHits :
               IsMergeOfRule(resolved, resolver.defaultPolicy,
                             resolver.config.OUPolicies[i]))
      /\ (AccountHits = {} /\ TagHits = {} /\ OUHits = {} =>
            resolved = resolver.defaultPolicy)

\* an account matched by rules of all three kinds has been resolved
C7_Witness ==
    /\ accountID # 0
    /\ AccountHits # {} /\ TagHits # {} /\ OUHits # {}
    /\ resolved.Name = "account-policy"

\* C20: within one rule kind the first match in configured order wins: when
\* several account rules (or, failing those, several tag rules, or, failing
\* those, several OU rules) match the account, ResolvePolicy returns the
\* merge of the earliest one in its list.
C20_FirstMatchWithinKind ==
    accountID # 0 =>
      /\ (Cardinality(AccountHits) >= 2 =>
            IsMergeOfRule(resolved, resolver.defaultPolicy,
                          resolver.config.AccountPolicies[Least(AccountHits)]))
      /\ (AccountHits = {} /\ Cardinality(TagHits) >= 2 =>
            IsMergeOfRule(resolved, resolver.defaultPolicy,
                          resolver.config.TagPolicies[Least(TagHits)]))
      /\ (AccountHits = {} /\ TagHits = {} /\ Cardinality(OUHits) >= 2 =>
            IsMergeOfRule(resolved, resolver.defaultPolicy,
                          resolver.config.OUPolicies[Least(OUHits)]))

\* two different OU rules match the account and no rule of a higher kind
\* does: the result is the merge of the first and not of the second
C20_Witness ==
    /\ accountID # 0
    /\ AccountHits = {} /\ TagHits = {} /\ OUHits = {1, 2}
    /\ IsMergeOfRule(resolved, resolver.defaultPolicy,
                     resolver.config.OUPolicies[1])
    /\ ~IsMergeOfRule(resolved, resolver.defaultPolicy,
                      resolver.config.OUPolicies[2])

\* the queried account has no entry in the OU cache and none in the tag cache
NoMetadata ==
    /\ accountID \notin DOMAIN resolver.accountToOU
    /\ accountID \notin DOMAIN resolver.accountToTags

\* C21: for an account without any loaded metadata ResolvePolicy never
\* applies a tag or OU rule, whatever is configured: the result is the merge
\* of the matching account rule, and exactly the default policy when no
\* account rule matches.
C21_NoMetadataNoTagOrOURule ==
    (accountID # 0 /\ NoMetadata) =>
      /\ (AccountHits = {} => resolved = resolver.defaultPolicy)
      /\ (AccountHits # {} =>
            IsMergeOfRule(resolved, resolver.defaultPolicy,
                          resolver.config.AccountPolicies[Least(AccountHits)]))

\* an account without metadata and without an account rule, in a
\* configuration with a tag rule and with an OU rule for the empty OU id,
\* got the default policy
C21_Witness ==
    /\ accountID # 0 /\ NoMetadata /\ AccountHits = {}
    /\ Len(resolver.config.TagPolicies) >= 1
    /\ \E i \in 1..Len(resolver.config.OUPolicies) :
          resolver.config.OUPolicies[i].OU = ""
    /\ resolved = resolver.defaultPolicy

\* the result is the merge of one of the listed rules
FromRule(rules, hits) ==
    \E i \in hits : IsMergeOfRule(resolved, resolver.defaultPolicy, rules[i])

\* C22: rule matching is exact equality. With no account rule in the way, a
\* tag rule is applied iff the cached tag map of the account holds the
\* rule's key with exactly the rule's value, and an OU rule iff the cached
\* OU id equals the rule's OU; a value that differs only in case matches
\* nothing, and the empty string matches when it is what the cache holds.
C22_ExactMatch ==
    (accountID # 0 /\ AccountHits = {}) =>
      /\ TagHits # {} => FromRule(resolver.config.TagPolicies, TagHits)
      /\ (TagHits = {} /\ OUHits # {}) =>
            FromRule(resolver.config.OUPolicies, OUHits)
      /\ (TagHits = {} /\ OUHits = {}) => resolved = resolver.defaultPolicy
      /\ resolved.Name \in {"tag-policy", "tag-empty"} => TagHits # {}
      /\ resolved.Name \in {"ou-policy", "ou-second", "ou-empty"} =>
            OUHits # {}
      /\ resolved.Name = "tag-policy" =>
            resolver.accountToTags[accountID]["env"] = "prod"
      /\ resolved.Name = "tag-empty" =>
            resolver.accountToTags[accountID]["env"] = ""
      /\ resolved.Name = "ou-empty" => resolver.accountToOU[accountID] = ""
      /\ (accountID \in DOMAIN resolver.accountToTags
            /\ DOMAIN resolver.accountToTags[accountID] = {"Env"}) =>
            resolved.Name \notin {"tag-policy", "tag-empty"}

\* the account's cached tag is env=Prod and its cached OU id is the empty
\* string; a rule for env=prod is configured and does not match, the rule
\* for the empty OU id does
C22_Witness ==
    /\ accountID # 0 /\ AccountHits = {}
    /\ accountID \in DOMAIN resolver.accountToTags
    /\ "env" \in DOMAIN resolver.accountToTags[accountID]
    /\ resolver.accountToTags[accountID]["env"] = "Prod"
    /\ \E i \in 1..Len(resolver.config.TagPolicies) :
          resolver.config.TagPolicies[i].TagValue = "prod"
    /\ accountID \in DOMAIN resolver.accountToOU
    /\ resolver.accountToOU[accountID] = ""
    /\ resolved.Name = "ou-empty"

C8_FieldLevelMerge ==
    mergeArgs.called =>
      IsMergeOf(merged, mergeArgs.base, mergeArgs.name,
                mergeArgs.growthBuffer, mergeArgs.minimumBudget,
                mergeArgs.roundingIncrement)

\* a merge with an empty name, a negative and a zero override, and one
\* positive override has been computed
C8_Witness ==
    /\ mergeArgs.called
    /\ mergeArgs.name = "" /\ mergeArgs.growthBuffer < 0
    /\ mergeArgs.minimumBudget = 0 /\ mergeArgs.roundingIncrement > 0
    /\ mergeArgs.base.GrowthBuffer = 20
    /\ merged.GrowthBuffer = 20 /\ merged.RoundingIncrement = 30

----------------------------------------------------------------------------
(* Claims about the bulk fetches *)

Returned == pc = "returned"

TransientSignatures ==
    {"ThrottlingException", "RequestLimitExceeded", "ServiceUnavailable",
     "InternalError", "connection", "timeout"}

\* the error carries one of the transient signatures
IsTransient(e) ==
    ~e.nil /\ \E k \in 1..Len(e.text) : e.text[k] \in TransientSignatures

\* the words of cause are the last words of err
CarriesCause(err, cause) ==
    /\ ~err.nil
    /\ Len(err.text) >= Len(cause.text)
    /\ SubSeq(err.text, Len(err.text) - Len(cause.text) + 1, Len(err.text))
         = cause.text

\* account i is in a backoff sleep
Sleeping(i) == \E w \in Workers : workers[w].idx = i /\ workers[w].pc = "sleep"

\* C2: with C >= 1 the cost fetch returns exactly N outcomes, slot i non-nil
\* and carrying the id and name of accounts[i], either a payload or an error
\* outcome, whatever the interleaving of the workers.
C2_OneOutcomePerAccountInOrder ==
    (Returned /\ fetchKind = "cost" /\ concurrency >= 1) =>
       /\ Len(costResults) = Len(accounts)
       /\ \A i \in 1..Len(accounts) :
            /\ ~costResults[i].nil
            /\ costResults[i].AccountID = accounts[i].ID
            /\ costResults[i].AccountName = accounts[i].Name
            /\ writes[i] = 1

\* two workers, two accounts: the first failed, the second succeeded
C2_Witness ==
    /\ Returned /\ fetchKind = "cost"
    /\ concurrency = 2 /\ Len(accounts) = 2
    /\ ~costResults[1].nil /\ ~costResults[1].Error.nil
    /\ ~costResults[2].nil /\ costResults[2].Error.nil
    /\ Len(costResults[2].MonthlyCosts) = 1

\* the budget records stored for an account are real budgets
RealBudgets(list) ==
    \A k \in 1..Len(list) : list[k].AccessStatus = BudgetAccessSuccess

\* the budget records stored for an account are one marker record
OneMarker(list) ==
    /\ Len(list) = 1
    /\ list[1].AccessStatus \in
          {BudgetAccessDenied, BudgetAccessNotFound, BudgetAccessError}

\* C16: with C >= 1 the budget fetch returns a map with exactly N keys, the
\* submitted account ids, each mapped to a non-empty list of records of that
\* account: real budgets or one marker record, whatever the interleaving.
C16_OneBudgetListPerAccount ==
    (Returned /\ fetchKind = "budget" /\ concurrency >= 1) =>
       /\ DOMAIN budgetResults = { accounts[i].ID : i \in 1..Len(accounts) }
       /\ Cardinality(DOMAIN budgetResults) = Len(accounts)
       /\ \A i \in 1..Len(accounts) :
            LET list == budgetResults[accounts[i].ID]
            IN  /\ Len(list) >= 1
                /\ \A k \in 1..Len(list) :
                      /\ list[k].AccountID = accounts[i].ID
                      /\ list[k].AccountName = accounts[i].Name
                /\ RealBudgets(list) \/ OneMarker(list)
                /\ writes[i] = 1

\* two workers, two accounts: a marker for the first, two pages of real
\* budgets for the second
C16_Witness ==
    /\ Returned /\ fetchKind = "budget"
    /\ concurrency = 2 /\ Len(accounts) = 2
    /\ OneMarker(budgetResults[accounts[1].ID])
    /\ Len(budgetResults[accounts[2].ID]) = 2
    /\ RealBudgets(budgetResults[accounts[2].ID])

\* C3: after a failed call another call is issued iff the error is transient
\* and fewer than R retries were made: at most R+1 calls per account, none
\* after a success, one call for a non-transient error, and R+1 transient
\* failures end in an error outcome carrying the cause.
C3_RetryIffTransientAndBelowLimit ==
    fetchKind = "cost" =>
      \A i \in 1..Len(accounts) :
        /\ calls[i] <= maxRetries + 1
        /\ Len(log[i]) <= calls[i] /\ calls[i] <= Len(log[i]) + 1
        /\ \A k \in 1..Len(log[i]) :
             /\ k < calls[i] => (IsTransient(log[i][k]) /\ k - 1 < maxRetries)
             /\ (IsTransient(log[i][k]) /\ k - 1 < maxRetries)
                   => (k < calls[i] \/ (k = calls[i] /\ Sleeping(i)))
             /\ (k = Len(log[i]) /\ ~(k < calls[i]) /\ ~Sleeping(i)) =>
                   /\ ~costResults[i].nil
                   /\ costResults[i].Error.nil = log[i][k].nil
                   /\ ~log[i][k].nil =>
                        /\ CarriesCause(costResults[i].Error, log[i][k])
                        /\ costResults[i].Error.attempts = k

\* an account ended in an error after R+1 = 2 transient failures
C3_Witness ==
    /\ fetchKind = "cost" /\ maxRetries = 1 /\ Len(accounts) >= 1
    /\ calls[1] = 2 /\ Len(log[1]) = 2
    /\ IsTransient(log[1][1]) /\ IsTransient(log[1][2])
    /\ ~costResults[1].nil /\ ~costResults[1].Error.nil
    /\ costResults[1].Error.attempts = 2

\* the transient failures among the calls made for account i
TransientFailures(i) ==
    Cardinality({ k \in 1..Len(log[i]) : IsTransient(log[i][k]) })

\* C18: the budget fetch retries a transient failure with backoff: an
\* account's terminal outcome is recorded after a transient failure only
\* when R retries were made, each after a backoff sleep.
C18_BudgetRetriesTransient ==
    fetchKind = "budget" =>
      \A i \in 1..Len(accounts) :
        (writes[i] >= 1 /\ log[i] # <<>> /\ IsTransient(log[i][Len(log[i])]))
           => /\ TransientFailures(i) = maxRetries + 1
              /\ sleeps[i] = maxRetries

\* the accounts whose result is stored and whose worker has gone past the
\* progress callback
Completed ==
    { i \in 1..Len(accounts) :
        /\ writes[i] >= 1
        /\ ~\E w \in Workers :
              workers[w].idx = i /\ workers[w].pc = "callback" }

\* C29: in either bulk fetch the completion callback is invoked exactly
\* once per account, after that account's result has been stored and
\* whatever the outcome: at every moment the invocations made are as many
\* as the accounts that are stored and past their callback, and N when the
\* fetch with C >= 1 returns.
C29_OneCallbackPerAccount ==
    fetchKind \in {"cost", "budget"} =>
      /\ callbacks = Cardinality(Completed)
      /\ \A w \in Workers :
            workers[w].pc = "callback" => writes[workers[w].idx] = 1
      /\ (Returned /\ concurrency >= 1) => callbacks = Len(accounts)

\* a cost fetch of two accounts returned after two callbacks, one account
\* having failed and one succeeded
C29_Witness ==
    /\ Returned /\ fetchKind = "cost"
    /\ Len(accounts) = 2 /\ callbacks = 2
    /\ ~costResults[1].Error.nil /\ costResults[2].Error.nil

\* the workers that have received index i and not yet gone back to the
\* channel
Holders(i) == { w \in Workers : workers[w].idx = i }

\* the positions of the channel buffer that hold index i
InJobs(i) == { k \in 1..Len(jobs) : jobs[k] = i }

\* C33: single writer per slot. The index of each account is, once sent, in
\* the channel, or with exactly one worker, or done with its one write; so
\* two workers never work on the same account and no slot is written
\* twice, and the budget map is written only by the worker holding the
\* mutex.
C33_SingleWriterPerSlot ==
    fetchKind \in {"cost", "budget"} =>
      /\ \A i \in 1..Len(accounts) :
            /\ writes[i] <= 1
            /\ Cardinality(Holders(i)) <= 1
            /\ Cardinality(InJobs(i)) + Cardinality(Holders(i))
                  + (IF writes[i] >= 1 /\ Holders(i) = {} THEN 1 ELSE 0)
                 = (IF i <= sent THEN 1 ELSE 0)
            /\ \A w \in Holders(i) :
                  writes[i] >= 1 => workers[w].pc = "callback"
      /\ \A w \in Workers : workers[w].pc = "store" => mu = w

\* a budget fetch in which one worker stores its account under the mutex
\* while the other waits for the mutex with another account
C33_Witness ==
    /\ fetchKind = "budget"
    /\ \E w1, w2 \in Workers :
          /\ workers[w1].pc = "store" /\ mu = w1
          /\ workers[w2].pc = "lock"
          /\ workers[w1].idx # workers[w2].idx

\* the workers with a per-account fetch in progress: a remote call in
\* flight or a backoff sleep
Fetching == { w \in Workers : workers[w].pc \in {"inflight", "sleep"} }

\* C34: bounded concurrency. At every moment of a bulk fetch started with
\* the limit C at most C per-account fetches are in progress, also when
\* there are more accounts than C; no more than C workers exist at all.
C34_BoundedConcurrency ==
    fetchKind \in {"cost", "budget"} =>
      /\ Cardinality(Fetching) <= (IF concurrency > 0 THEN concurrency ELSE 0)
      /\ Cardinality(Workers) <= (IF concurrency > 0 THEN concurrency ELSE 0)

\* two accounts and the limit 1: the fetch of one account is in progress
\* while the other waits in the channel
C34_Witness ==
    /\ fetchKind = "cost"
    /\ Len(accounts) = 2 /\ concurrency = 1
    /\ Cardinality(Fetching) = 1
    /\ Len(jobs) = 1

\* C37: with C <= 0 a bulk fetch starts no worker, makes no remote call and
\* invokes no callback, and its caller is never blocked: every send finds
\* room in the channel and the wait finds the counter at zero. The cost
\* fetch returns N nil slots and the budget fetch an empty map.
C37_NoWorkersNoOutcomes ==
    (fetchKind \in {"cost", "budget"} /\ concurrency <= 0) =>
      /\ Workers = {}
      /\ callbacks = 0
      /\ \A i \in 1..Len(accounts) :
            calls[i] = 0 /\ writes[i] = 0 /\ log[i] = <<>>
      /\ (pc = "send" /\ sent < Len(accounts)) => Len(jobs) < Len(accounts)
      /\ pc = "wait" => wg = 0
      /\ Returned =>
            /\ Len(costResults) = Len(accounts)
            /\ \A i \in 1..Len(accounts) : costResults[i] = Nil
            /\ budgetResults = EmptyMap

\* a cost fetch of two accounts with the limit 0 has returned two nil slots
C37_Witness ==
    /\ Returned /\ fetchKind = "cost"
    /\ concurrency = 0 /\ Len(accounts) = 2
    /\ costResults = <<Nil, Nil>>
    /\ sent = 2 /\ callbacks = 0

\* C4: a bulk fetch never blocks: the producer can always enqueue the next
\* index token, and under fair scheduling, with every remote call returning,
\* every worker exits and the fetch returns.
C4_FetchTerminates ==
    /\ []((pc = "send" /\ sent < Len(accounts)) => Len(jobs) < Len(accounts))
    /\ <>(Returned /\ \A w \in Workers : workers[w].pc = "done")

\* a fetch over two accounts with two workers has returned
C4_Witness ==
    /\ Returned /\ concurrency = 2 /\ Len(accounts) = 2
    /\ \A w \in Workers : workers[w].pc = "done"
    /\ sent = 2 /\ jobs = <<>>

\* C5 (as claimed): once the cancellation signal is raised no remote call is
\* started and no backoff sleep begins.
C5_NoNewWorkAfterCancel ==
    [][ctxDone => (calls' = calls /\ sleeps' = sleeps)]_vars

----------------------------------------------------------------------------
(* Claims about the recommendation engine *)

\* the recommendation that was returned
Rec == recommendation.rec

Generated == recommendation.err = ""

\* 100 times the floored budget: max(peak * (1 + g/100), minimumBudget)
Floored100 ==
    LET g == IF policy.GrowthBuffer = 0 THEN 20 ELSE policy.GrowthBuffer
        raw100 == statistics.PeakMonthlySpend * (100 + g)
    IN  IF raw100 >= 100 * policy.MinimumBudget THEN raw100
        ELSE 100 * policy.MinimumBudget

\* r is the multiple of inc nearest to v100/100, halves away from zero
IsNearestMultiple(r, v100, inc) ==
    /\ \E k \in -1000..1000 : r = k * inc
    /\ 2 * Abs(100 * r - v100) <= 100 * inc
    /\ (2 * Abs(100 * r - v100) = 100 * inc => Abs(100 * r) > Abs(v100))

\* C9 (as claimed): the recommended budget is never less than the policy's
\* minimum budget, also when a rounding increment is configured.
C9_NeverBelowMinimum ==
    Generated => Rec.RecommendedBudget >= policy.MinimumBudget

\* C10: the recommended budget is max(peak * (1 + g/100), minimumBudget)
\* rounded to the nearest multiple of the increment, where g is the growth
\* buffer or 20 when that is zero, and unrounded when the increment is not
\* positive.
C10_RecommendedBudgetFormula ==
    Generated =>
      IF policy.RoundingIncrement > 0
      THEN IsNearestMultiple(Rec.RecommendedBudget, Floored100,
                             policy.RoundingIncrement)
      ELSE 100 * Rec.RecommendedBudget = Floored100

\* peak 500, growth buffer left at zero, increment 10: 600
C10_Witness ==
    /\ Generated
    /\ statistics.PeakMonthlySpend = 50000
    /\ policy.GrowthBuffer = 0
    /\ policy.RoundingIncrement = 1000
    /\ Rec.RecommendedBudget = 60000

\* C11: with a current budget > 0 the adjustment percent is
\* ((recommended - current) / current) * 100; with no current budget, or one
\* that is <= 0, it is exactly 100 whatever the statistics and the policy.
C11_AdjustmentPercent ==
    Generated =>
      LET current == comparison.CurrentBudget
          adj == Rec.AdjustmentPercent
      IN  /\ adj.den > 0
          /\ IF current.present /\ current.value > 0
             THEN adj.num * current.value
                    = (Rec.RecommendedBudget - current.value) * 100 * adj.den
             ELSE adj.num = 100 * adj.den

\* budget 450, recommended 600: the adjustment is 100/3 percent
C11_Witness ==
    /\ Generated
    /\ comparison.CurrentBudget = SomeFloat(45000)
    /\ Rec.RecommendedBudget = 60000
    /\ Rec.AdjustmentPercent = [num |-> 100, den |-> 3]

\* |adjustment| > t for the adjustment of the call
MagnitudeAbove(t) ==
    Abs(call.adjustmentPercent.num) > t * call.adjustmentPercent.den

Bijections(n) ==
    { p \in [1..n -> 1..n] : \A i, j \in 1..n : i # j => p[i] # p[j] }

----------------------------------------------------------------------------
(* Claims about CompareToBudget *)

\* C36: CompareToBudget fails only when the statistics are absent.
\* Otherwise, without a budget record or with a limit <= 0 the status is
\* no-budget and there is no utilization; with a limit > 0 the utilization
\* is average / limit * 100 and the status is over-budget iff it is above
\* 100, under-utilized iff it is below 50, appropriate otherwise, 100 and
\* 50 themselves included.
C36_CompareToBudgetContract ==
    Returns("CompareToBudget") =>
      LET st == call.statistics
          b == call.budgetConfig
          cmp == ret.val.cmp
      IN  /\ ~ret.val.err.nil <=> st.nil
          /\ ret.val.err.nil => ~cmp.nil
          /\ (~st.nil /\ (b.nil \/ b.val.LimitAmount <= 0))
               => /\ cmp.Status = StatusNoBudget
                  /\ ~cmp.UtilizationPercent.present
          /\ (~st.nil /\ ~b.nil /\ b.val.LimitAmount > 0)
               => LET avg == st.AverageMonthlySpend
                      limit == b.val.LimitAmount
                      u == cmp.UtilizationPercent.value
                  IN  /\ cmp.UtilizationPercent.present
                      /\ u.num * limit = avg * 100 * u.den
                      /\ cmp.Status = StatusOverBudget <=> avg > limit
                      /\ cmp.Status = StatusUnderUtilized <=> 2 * avg < limit
                      /\ cmp.Status = StatusAppropriate
                            <=> (avg <= limit /\ 2 * avg >= limit)

\* an average equal to the limit compared as appropriate
C36_Witness ==
    /\ Returns("CompareToBudget")
    /\ ~call.statistics.nil /\ ~call.budgetConfig.nil
    /\ call.budgetConfig.val.LimitAmount = 10000
    /\ call.statistics.AverageMonthlySpend = 10000
    /\ ret.val.cmp.Status = StatusAppropriate
    /\ ret.val.cmp.UtilizationPercent.value = Frac(100, 1)

\* C40: an account without a usable budget is surfaced as high priority.
\* When the budget handed to the comparison is absent or has a limit <= 0,
\* as the marker records of not_found, access_denied and error have, then
\* for every statistics and policy the status is no-budget, the adjustment
\* is 100 and the priority is high.
C40_NoBudgetIsHighPriority ==
    (/\ Returns("CompareAndRecommend")
     /\ ~call.statistics.nil
     /\ (call.budgetConfig.nil \/ call.budgetConfig.val.LimitAmount <= 0))
    => /\ ~ret.failed
       /\ ret.cmp.Status = StatusNoBudget
       /\ ret.rec.AdjustmentPercent = Frac(100, 1)
       /\ ret.rec.Priority = PriorityHigh

\* the marker record of a denied listing, with statistics without spend
\* and a policy without a minimum, gave a high-priority recommendation of 0
C40_Witness ==
    /\ Returns("CompareAndRecommend")
    /\ ~call.statistics.nil /\ ~call.budgetConfig.nil
    /\ call.budgetConfig.val.AccessStatus = BudgetAccessDenied
    /\ call.statistics.PeakMonthlySpend = 0
    /\ ~ret.failed
    /\ ret.rec.RecommendedBudget = 0
    /\ ret.rec.Priority = PriorityHigh

----------------------------------------------------------------------------
(* Claims about calculateTrend *)

RECURSIVE SumY(_)
SumY(m) == IF m = <<>> THEN 0 ELSE Head(m).Amount + SumY(Tail(m))

\* sum of index * amount, the first month having index k
RECURSIVE SumXY(_, _)
SumXY(m, k) ==
    IF m = <<>> THEN 0 ELSE k * Head(m).Amount + SumXY(Tail(m), k + 1)

\* the least-squares slope of the series is SlopeNum / SlopeDen, with
\* the sums of 0..M-1 and of their squares in closed form; SlopeDen > 0
\* for M >= 2
SlopeNum(m) ==
    Len(m) * SumXY(m, 0) - ((Len(m) * (Len(m) - 1)) \div 2) * SumY(m)

SlopeDen(m) ==
    Len(m) * (((Len(m) - 1) * Len(m) * (2 * Len(m) - 1)) \div 6)
      - ((Len(m) * (Len(m) - 1)) \div 2) * ((Len(m) * (Len(m) - 1)) \div 2)

\* |slope| < 0.05 * average
BelowThreshold(m) ==
    20 * Len(m) * Abs(SlopeNum(m)) < SumY(m) * SlopeDen(m)

\* C25: the trend of M monthly amounts is Stable if M < 2; otherwise it is
\* Stable iff |slope| < 0.05 * average, and otherwise Increasing only if
\* slope > 0 and Decreasing only if slope < 0.
C25_TrendClassification ==
    Returns("calculateTrend") =>
        LET m == call.monthlyCosts
        IN  /\ Len(m) < 2 => ret.val = TrendStable
            /\ Len(m) >= 2 =>
                  /\ ret.val = TrendStable <=> BelowThreshold(m)
                  /\ ret.val = TrendIncreasing => SlopeNum(m) > 0
                  /\ ret.val = TrendDecreasing => SlopeNum(m) < 0

----------------------------------------------------------------------------
(* Claims about CalculateStatistics *)

\* C26: CalculateStatistics fails, with no statistics, exactly when the cost
\* series is absent or carries an error, which the returned error wraps; an
\* empty series gives zero spend fields, no current spend, 0 months and a
\* Stable trend; M >= 1 months give average = mean, peak = max,
\* minimum = min, current = the last amount and months analyzed = M.
C26_StatisticsContract ==
    Returns("CalculateStatistics") =>
        LET cost == call.costData
            err == ret.val.err
            stats == ret.val.stats
            failed == cost.nil \/ ~cost.Error.nil
        IN  /\ ~err.nil <=> failed
            /\ failed => stats.nil
            /\ (~cost.nil /\ ~cost.Error.nil)
                  => /\ CarriesCause(err, cost.Error)
                     /\ Len(err.text) > Len(cost.Error.text)
            /\ ~failed =>
                  LET m == cost.MonthlyCosts
                      M == Len(m)
                  IN  /\ ~stats.nil
                      /\ stats.AccountID = cost.AccountID
                      /\ stats.AccountName = cost.AccountName
                      /\ stats.MonthsAnalyzed = M
                      /\ M = 0 =>
                            /\ stats.AverageMonthlySpend = 0
                            /\ stats.PeakMonthlySpend = 0
                            /\ stats.MinMonthlySpend = 0
                            /\ stats.CurrentMonthSpend = NoFloat
                            /\ stats.Trend = TrendStable
                      /\ M >= 1 =>
                            /\ stats.AverageMonthlySpend * M = SumY(m)
                            /\ \E i \in 1..M :
                                  m[i].Amount = stats.PeakMonthlySpend
                            /\ \A i \in 1..M :
                                  m[i].Amount <= stats.PeakMonthlySpend
                            /\ \E i \in 1..M :
                                  m[i].Amount = stats.MinMonthlySpend
                            /\ \A i \in 1..M :
                                  m[i].Amount >= stats.MinMonthlySpend
                            /\ stats.CurrentMonthSpend = SomeFloat(m[M].Amount)

\* the statistics of the series 100, 250, 100, 150
C26_Witness ==
    /\ Returns("CalculateStatistics")
    /\ ~call.costData.nil /\ call.costData.Error.nil
    /\ Len(call.costData.MonthlyCosts) = 4
    /\ ret.val.err.nil
    /\ ret.val.stats.AverageMonthlySpend = 150
    /\ ret.val.stats.PeakMonthlySpend = 250
    /\ ret.val.stats.MinMonthlySpend = 100
    /\ ret.val.stats.CurrentMonthSpend = SomeFloat(150)

----------------------------------------------------------------------------
(* Claims about roundToIncrement *)

\* C24: roundToIncrement returns value unchanged for increment 0 and
\* otherwise the multiple of increment nearest to value, an exact half
\* going away from zero: 123 by 10 is 120, 127 is 130, 125 is 130.
C24_NearestMultiple ==
    Returns("roundToIncrement") =>
        LET value == call.value
            increment == call.increment
            r == ret.val
        IN  /\ increment = 0 => r = value
            /\ increment # 0 =>
                  /\ \E k \in (-600)..600 : r = k * increment
                  /\ 2 * Abs(r - value) <= Abs(increment)
                  /\ 2 * Abs(r - value) = Abs(increment) => Abs(r) > Abs(value)
            /\ (value = 123 /\ increment = 10) => r = 120
            /\ (value = 127 /\ increment = 10) => r = 130
            /\ (value = 125 /\ increment = 10) => r = 130
            /\ (value = 123 /\ increment = 50) => r = 100
            /\ (value = 567 /\ increment = 100) => r = 600

\* the exact half -125 has been rounded by 10, away from zero
C24_Witness ==
    /\ Returns("roundToIncrement")
    /\ call.value = -125 /\ call.increment = 10
    /\ ret.val = -130

----------------------------------------------------------------------------
(* Claims about GetAccountBudgets *)

\* the number of budgets the pages of a listing hold
RECURSIVE Listed(_)
Listed(pages) ==
    IF pages = <<>> THEN 0 ELSE Len(Head(pages).Budgets) + Listed(Tail(pages))

\* the outcome a failed listing ends in
OutcomeOf(err) ==
    IF contains(err.text, "AccessDeniedException")
       \/ contains(err.text, "AccessDenied") THEN BudgetAccessDenied
    ELSE IF contains(err.text, "NotFoundException")
            \/ contains(err.text, "NotFound") THEN BudgetAccessNotFound
    ELSE BudgetAccessError

\* C17: GetAccountBudgets never returns an error value; a failed listing
\* yields exactly one record whose outcome is access_denied, not_found or
\* error by the kind of failure, the error outcome carrying the cause; a
\* listing without budgets yields one not_found record; every real budget
\* returned has outcome success.
C17_TerminalAccessOutcome ==
    Returns("GetAccountBudgets") =>
        LET pages == call.pages
            last == pages[Len(pages)]
            list == ret.val.list
        IN  /\ ret.val.err.nil
            /\ \A k \in 1..Len(list) :
                  /\ list[k].AccountID = call.account.ID
                  /\ list[k].AccountName = call.account.Name
            /\ ~last.err.nil =>
                  /\ Len(list) = 1
                  /\ list[1].AccessStatus = OutcomeOf(last.err)
                  /\ list[1].AccessStatus = BudgetAccessError =>
                        list[1].AccessError = last.err
            /\ (last.err.nil /\ Listed(pages) = 0) =>
                  /\ Len(list) = 1
                  /\ list[1].AccessStatus = BudgetAccessNotFound
            /\ (last.err.nil /\ Listed(pages) > 0) =>
                  /\ Len(list) = Listed(pages)
                  /\ \A k \in 1..Len(list) :
                        list[k].AccessStatus = BudgetAccessSuccess

\* a listing whose second page is denied: the budgets of the first page are
\* dropped and one access_denied record is returned
C17_Witness ==
    /\ Returns("GetAccountBudgets")
    /\ Len(call.pages) = 2 /\ Len(call.pages[1].Budgets) = 1
    /\ call.pages[2].err = ErrorOf(<<"AccessDeniedException">>)
    /\ Len(ret.val.list) = 1
    /\ ret.val.list[1].AccessStatus = BudgetAccessDenied

----------------------------------------------------------------------------
(* Claims about calculateBackoff *)

RECURSIVE Pow2(_)
Pow2(a) == IF a = 0 THEN 1 ELSE 2 * Pow2(a - 1)

\* m = min(60000, B * 2^a), for the call at hand
BackoffM ==
    IF call.attempt > 16 \/ call.backoffMs * Pow2(call.attempt) > 60000
    THEN IF call.backoffMs = 0 THEN 0 ELSE 60000
    ELSE call.backoffMs * Pow2(call.attempt)

\* C14 (as claimed): 0.75*m <= d <= 1.25*m for every base, attempt and
\* jitter sample.
C14_JitterWindow ==
    Returns("calculateBackoff") =>
        3 * BackoffM <= 4 * ret.val /\ 4 * ret.val <= 5 * BackoffM

\* C14 (amended): the delay is a whole number of milliseconds d with
\* 0.75*m - 1 < d <= 1.25*m, and 0.75*m <= d whenever 0.75*m is whole; for
\* B = 1000 attempts 0, 1 and 2 give [750,1250], [1500,2500], [3000,5000].
C14_JitterWindowWholeMs ==
    Returns("calculateBackoff") =>
        /\ 3 * BackoffM - 4 < 4 * ret.val
        /\ 4 * ret.val <= 5 * BackoffM
        /\ (3 * BackoffM) % 4 = 0 => 3 * BackoffM <= 4 * ret.val
        /\ (call.backoffMs = 1000 /\ call.attempt <= 2) =>
              /\ 750 * Pow2(call.attempt) <= ret.val
              /\ ret.val <= 1250 * Pow2(call.attempt)

\* base 1000, attempt 2, the largest jitter sample: 4998 ms
C14_Witness ==
    /\ Returns("calculateBackoff")
    /\ call.backoffMs = 1000 /\ call.attempt = 2 /\ call.nano = 999
    /\ ret.val = 4998

\* C15 (as claimed): the delay never exceeds 60000 ms.
C15_DelayAtMostCap ==
    Returns("calculateBackoff") => ret.val <= 60000

----------------------------------------------------------------------------
(* Claims about LoadAccountMetadata *)

\* the two caches hold for this account id what they held before the call
Untouched(id) ==
    /\ HasKey(ret.val.r.accountToOU, id) = HasKey(call.r.accountToOU, id)
    /\ HasKey(call.r.accountToOU, id)
          => ret.val.r.accountToOU[id] = call.r.accountToOU[id]
    /\ HasKey(ret.val.r.accountToTags, id) = HasKey(call.r.accountToTags, id)
    /\ HasKey(call.r.accountToTags, id)
          => ret.val.r.accountToTags[id] = call.r.accountToTags[id]

\* the positions of the calls of one kind made for one account
CallsFor(kind, id) ==
    { k \in 1..Len(ret.val.calls) :
        ret.val.calls[k].op = kind /\ ret.val.calls[k].arg = id }

ParentsFailed(i) == ~call.replies[i].parentsErr.nil

TagsFailed(i) == ~call.replies[i].tagsErr.nil

\* C31: metadata loading is non-fatal per account. LoadAccountMetadata
\* returns no error whatever lookups fail; every account of the list has its
\* parents looked up once, in list order, whatever happened to the accounts
\* before it, and what its lookups returned is recorded; the entries of
\* accounts outside the list, and of accounts whose parents lookup failed,
\* are what they were before the call.
C31_MetadataLoadingNonFatal ==
    Returns("LoadAccountMetadata") =>
      LET accs == call.accounts
      IN  /\ ret.val.err.nil
          /\ \A i \in 1..Len(accs) :
                /\ Cardinality(CallsFor("ListParents", accs[i].ID)) = 1
                /\ \A j \in 1..Len(accs) :
                      i < j => \A a \in CallsFor("ListParents", accs[i].ID),
                                  b \in CallsFor("ListParents", accs[j].ID) :
                                  a < b
                /\ (/\ ~ParentsFailed(i)
                    /\ Len(call.replies[i].Parents) > 0
                    /\ call.replies[i].Parents[1].hasId)
                   => /\ HasKey(ret.val.r.accountToOU, accs[i].ID)
                      /\ ret.val.r.accountToOU[accs[i].ID]
                            = call.replies[i].Parents[1].Id
                /\ (~ParentsFailed(i) /\ ~TagsFailed(i))
                   => /\ HasKey(ret.val.r.accountToTags, accs[i].ID)
                      /\ ret.val.r.accountToTags[accs[i].ID]
                            = TagMapOf(call.replies[i].Tags,
                                       Len(call.replies[i].Tags))
                /\ ParentsFailed(i) => Untouched(accs[i].ID)
          /\ Untouched(OtherAccount.ID)

\* a load of two accounts on a resolver that held the entries of a third:
\* the lookup of the first failed, the second was recorded
C31_Witness ==
    /\ Returns("LoadAccountMetadata")
    /\ Len(call.accounts) = 2
    /\ HasKey(call.r.accountToOU, OtherAccount.ID)
    /\ ParentsFailed(1)
    /\ ~HasKey(ret.val.r.accountToOU, call.accounts[1].ID)
    /\ HasKey(ret.val.r.accountToOU, call.accounts[2].ID)
    /\ HasKey(ret.val.r.accountToTags, call.accounts[2].ID)

\* C38: the two lookups of an account are sequenced. After a failed parents
\* lookup the tags of the account are not looked up and neither cache gets
\* an entry for it; after a successful parents lookup and a failed tags
\* lookup only the OU entry is recorded. So an account without an earlier
\* tag entry has one after the load only if both of its lookups succeeded,
\* and a tag rule matches only such accounts.
C38_LookupsSequenced ==
    Returns("LoadAccountMetadata") =>
      \A i \in 1..Len(call.accounts) :
        LET id == call.accounts[i].ID
            reply == call.replies[i]
            after == ret.val.r
        IN  /\ ParentsFailed(i)
               => /\ CallsFor("ListTagsForResource", id) = {}
                  /\ Untouched(id)
            /\ ~ParentsFailed(i)
               => Cardinality(CallsFor("ListTagsForResource", id)) = 1
            /\ (~ParentsFailed(i) /\ TagsFailed(i))
               => /\ HasKey(after.accountToTags, id)
                       = HasKey(call.r.accountToTags, id)
                  /\ HasKey(call.r.accountToTags, id)
                       => after.accountToTags[id] = call.r.accountToTags[id]
                  /\ (Len(reply.Parents) > 0 /\ reply.Parents[1].hasId)
                       => /\ HasKey(after.accountToOU, id)
                          /\ after.accountToOU[id] = reply.Parents[1].Id
            /\ ~HasKey(call.r.accountToTags, id)
               => /\ HasKey(after.accountToTags, id)
                       <=> (~ParentsFailed(i) /\ ~TagsFailed(i))
                  /\ TagMatch(after, id) # 0
                       => (~ParentsFailed(i) /\ ~TagsFailed(i))

\* a load on a fresh resolver of two accounts answered with the production
\* tag: the parents lookup of the first failed and it matches no tag rule,
\* the tags lookup of the second failed and it has only an OU entry
C38_Witness ==
    /\ Returns("LoadAccountMetadata")
    /\ Len(call.accounts) = 2
    /\ call.r.accountToTags = EmptyMap
    /\ ParentsFailed(1) /\ call.replies[1].Tags = <<ProdTag>>
    /\ TagMatch(ret.val.r, call.accounts[1].ID) = 0
    /\ ~ParentsFailed(2) /\ TagsFailed(2)
    /\ HasKey(ret.val.r.accountToOU, call.accounts[2].ID)
    /\ ~HasKey(ret.val.r.accountToTags, call.accounts[2].ID)

----------------------------------------------------------------------------
(* Claims about runAnalysis *)

\* the run went through the whole loop and handed its result to the report
Reported == runPc = "returned" /\ ~output.nil

\* the run ended on the cancellation check of the loop
Cancelled == runPc = "returned" /\ runErr = ErrorOf(<<"analysis cancelled">>)

Accumulated == Len(result.Recommendations) + Len(result.Errors)

\* C1: after a run over N accounts, len(Recommendations) + len(Errors) = N,
\* whatever mix of accounts failed; inside the loop the two lists together
\* hold one entry per account consumed so far
C1_Completeness ==
    /\ runPc = "analyze" => Accumulated = cursor
    /\ Reported =>
          /\ Accumulated = Len(accounts)
          /\ Len(output.Recommendations) + Len(result.Errors) = Len(accounts)

\* a reported run with both a recommendation and an error record
C1_Witness ==
    /\ Reported
    /\ Len(accounts) >= 2
    /\ Len(result.Recommendations) >= 1
    /\ Len(result.Errors) >= 1

\* the account ids of a list of recommendations or error records
IDsOf(list) == { list[k].AccountID : k \in 1..Len(list) }

\* a step of the loop body fails for this cost record
StepFails(cost) ==
    \/ ~cost.Error.nil
    \/ ~CalculateStatistics(cost).err.nil
    \/ ~CompareToBudget(CalculateStatistics(cost).stats,
                        FirstBudget(budgetData, cost.AccountID)).err.nil

\* C19: at the end of an uncancelled run the ids in Recommendations and in
\* Errors are disjoint, no account appears twice, every account with a
\* failed step has an error record with its id, name and the original
\* cause, and every other submitted account has a recommendation.
C19_FailuresBecomeErrorRecords ==
    Reported =>
        /\ IDsOf(result.Recommendations) \cap IDsOf(result.Errors) = {}
        /\ Cardinality(IDsOf(result.Recommendations))
              = Len(result.Recommendations)
        /\ Cardinality(IDsOf(result.Errors)) = Len(result.Errors)
        /\ \A i \in 1..Len(accounts) :
              IF StepFails(costData[i])
              THEN \E k \in 1..Len(result.Errors) :
                     /\ result.Errors[k].AccountID = accounts[i].ID
                     /\ result.Errors[k].AccountName = accounts[i].Name
                     /\ ~result.Errors[k].Error.nil
                     /\ result.Errors[k].Error = costData[i].Error
              ELSE \E k \in 1..Len(result.Recommendations) :
                     /\ result.Recommendations[k].AccountID = accounts[i].ID
                     /\ result.Recommendations[k].AccountName
                           = accounts[i].Name

\* a reported run of two accounts: the first failed in the cost fetch, the
\* second got a recommendation
C19_Witness ==
    /\ Reported
    /\ Len(accounts) = 2
    /\ ~costData[1].Error.nil /\ costData[2].Error.nil
    /\ IDsOf(result.Errors) = {accounts[1].ID}
    /\ IDsOf(result.Recommendations) = {accounts[2].ID}

\* the budget outcome of the account at position i of the run
BudgetOutcomeAt(i) ==
    LET id == accounts[i].ID
    IN  IF HasKey(budgetData, id) /\ Len(budgetData[id]) > 0
        THEN budgetData[id][1].AccessStatus
        ELSE BudgetAccessNotFound

SoftBudgetOutcomes ==
    {BudgetAccessDenied, BudgetAccessNotFound, BudgetAccessError}

\* C30: a budget access failure is not a hard failure. At the end of an
\* uncancelled run every account whose cost fetch succeeded and whose budget
\* outcome is access_denied, not_found or error has exactly one
\* recommendation, which carries that outcome, and no error record.
C30_BudgetFailureIsSoft ==
    Reported =>
      \A i \in 1..Len(accounts) :
        (costData[i].Error.nil /\ BudgetOutcomeAt(i) \in SoftBudgetOutcomes)
        => /\ Cardinality({ k \in 1..Len(result.Recommendations) :
                 result.Recommendations[k].AccountID = accounts[i].ID }) = 1
           /\ \A k \in 1..Len(result.Recommendations) :
                 result.Recommendations[k].AccountID = accounts[i].ID
                 => result.Recommendations[k].BudgetAccessStatus
                       = BudgetOutcomeAt(i)
           /\ accounts[i].ID \notin IDsOf(result.Errors)

\* a reported run of two accounts with costs: the budgets of the first were
\* denied, the listing of the second failed, and both got a recommendation
C30_Witness ==
    /\ Reported
    /\ Len(accounts) = 2
    /\ costData[1].Error.nil /\ costData[2].Error.nil
    /\ BudgetOutcomeAt(1) = BudgetAccessDenied
    /\ BudgetOutcomeAt(2) = BudgetAccessError
    /\ Len(result.Recommendations) = 2
    /\ result.Recommendations[1].BudgetAccessStatus = BudgetAccessDenied
    /\ result.Recommendations[2].BudgetAccessStatus = BudgetAccessError

\* the OU and tag caches of the resolver of the run, empty before it exists
CachesOf(r) ==
    IF "accountToOU" \in DOMAIN r
    THEN <<r.accountToOU, r.accountToTags>>
    ELSE <<EmptyMap, EmptyMap>>

\* the positions of the log that hold an entry of one of the given kinds
OpsOf(kinds) == { i \in 1..Len(ops) : ops[i].op \in kinds }

FetchOps == {"LoadAccountMetadata", "GetAllAccountsCosts",
             "GetAllAccountsBudgets"}

\* C27: configuration failures fail fast. The OUs of the OU rules are
\* looked up in list order; when a lookup fails it is the last call of the
\* run: the run has ended with an error naming that OU id, without any
\* metadata lookup, cost fetch or budget fetch and without a result.
C27_FailFastOnBadOU ==
    LET described == OpsOf({"DescribeOrganizationalUnit"})
        failing == { i \in described : ~ops[i].err.nil }
    IN  /\ \A i \in described :
              /\ i - 1 <= Len(cfg.policyConfig.OUPolicies)
              /\ i >= 2 /\ ops[1].op = "ValidateOUs"
              /\ ops[i].arg = cfg.policyConfig.OUPolicies[i - 1].OU
        /\ \A i \in failing :
              /\ i = Len(ops)
              /\ runPc = "returned"
              /\ ~runErr.nil
              /\ contains(runErr.text, "policy configuration error")
              /\ contains(runErr.text, ops[i].arg)
              /\ CarriesCause(runErr, ops[i].err)
              /\ OpsOf(FetchOps) = {}
              /\ result.nil /\ output.nil
        /\ (OpsOf({"ValidateOUs"}) # {} /\ failing = {}) =>
              Cardinality(described) = Len(cfg.policyConfig.OUPolicies)
        /\ (OpsOf(FetchOps) # {} /\ Len(cfg.policyConfig.OUPolicies) > 0) =>
              OpsOf({"ValidateOUs"}) = {1}

\* two OU rules: the first OU was found, the second was not, and the run
\* ended naming the second
C27_Witness ==
    /\ runPc = "returned"
    /\ Len(ops) = 3
    /\ ops[2] = Op("DescribeOrganizationalUnit", "ou-2", NoError)
    /\ ops[3].op = "DescribeOrganizationalUnit" /\ ops[3].arg = "ou-1"
    /\ ~ops[3].err.nil /\ ops[3].err # CanceledError
    /\ contains(runErr.text, "ou-1") /\ ~contains(runErr.text, "ou-2")

\* the run is over: it returned or it crashed
Ended == runPc \in {"returned", "panicked"}

\* the run ended on a failed validation of the configured OUs
ConfigurationFailure ==
    runPc = "returned" /\ contains(runErr.text, "policy configuration error")

\* an empty account list ends the run with an error before anything is
\* looked up or fetched, and without a result
EmptyListIsFatal ==
    (Len(accounts) = 0 /\ runPc # "start") =>
        /\ runPc = "returned"
        /\ runErr = ErrorOf(<<"no accounts to analyze">>)
        /\ ops = <<>>
        /\ result.nil /\ output.nil

\* C28: an empty account list at entry is a fatal pre-flight condition (an
\* error, no validation, lookup or fetch, no result set); every other
\* uncancelled run, its configuration being valid, completes and reports a
\* result set plus an error list.
C28_OnlyEmptyListOrCancelStops ==
    /\ EmptyListIsFatal
    /\ (Len(accounts) > 0 /\ ~ctxDone /\ Ended /\ ~ConfigurationFailure) =>
          /\ runPc = "returned"
          /\ ~output.nil
          /\ output.Recommendations = result.Recommendations
          /\ output.errorsPrinted
          /\ output.Errors = result.Errors

\* C6: a cancelled run returns the recommendations and error records it had
\* accumulated before the cancellation
C6_PartialResultsReturned ==
    (Cancelled /\ Accumulated > 0) =>
        /\ ~output.nil
        /\ output.Recommendations = result.Recommendations
        /\ output.Errors = result.Errors

\* the positions of the accounts that got a recommendation
Recommended ==
    { i \in 1..Len(accounts) :
        accounts[i].ID \in IDsOf(result.Recommendations) }

\* C39: at the end of an uncancelled run AccountsWithBudgets +
\* AccountsWithoutBudgets = AccountsAnalyzed = len(Recommendations);
\* AccountsWithBudgets is the number of recommended accounts whose first
\* budget record has the outcome success; the accounts with an error record
\* are counted in none of the three.
C39_SummaryCounts ==
    Reported =>
      /\ result.AccountsWithBudgets + result.AccountsWithoutBudgets
            = result.AccountsAnalyzed
      /\ result.AccountsAnalyzed = Len(result.Recommendations)
      /\ result.AccountsAnalyzed = Cardinality(Recommended)
      /\ result.AccountsWithBudgets
            = Cardinality({ i \in Recommended :
                              BudgetOutcomeAt(i) = BudgetAccessSuccess })
      /\ result.AccountsAnalyzed + Len(result.Errors) = Len(accounts)

\* a reported run of two accounts: the cost fetch of the first failed, though
\* its budget was retrieved; the second was analyzed without a budget
C39_Witness ==
    /\ Reported
    /\ Len(accounts) = 2
    /\ BudgetOutcomeAt(1) = BudgetAccessSuccess
    /\ BudgetOutcomeAt(2) = BudgetAccessDenied
    /\ Len(result.Errors) = 1
    /\ result.AccountsAnalyzed = 1
    /\ result.AccountsWithBudgets = 0
    /\ result.AccountsWithoutBudgets = 1

\* C35: the metadata caches are written only before resolution begins. In
\* every run LoadAccountMetadata comes before the first ResolvePolicy call,
\* the caches change only in the metadata phase, and no step taken after a
\* ResolvePolicy call, that call included, changes them.
C35_CacheWrittenBeforeResolution ==
    [][ /\ \A i \in OpsOf({"LoadAccountMetadata"}) :
             \A j \in OpsOf({"ResolvePolicy"}) : i < j
        /\ CachesOf(resolver') # CachesOf(resolver)
             => /\ runPc = "metadata"
                /\ OpsOf({"ResolvePolicy"}) = {}
        /\ Len(ops') > Len(ops) /\ ops'[Len(ops')].op = "ResolvePolicy"
             => CachesOf(resolver') = CachesOf(resolver)
        /\ Len(ops') > Len(ops) /\ ops'[Len(ops')].op = "LoadAccountMetadata"
             => OpsOf({"ResolvePolicy"}) = {} ]_vars

\* a run that loaded the metadata of two accounts and then resolved the
\* policy of both, the second having no OU entry
C35_Witness ==
    /\ OpsOf({"LoadAccountMetadata"}) # {}
    /\ Cardinality(OpsOf({"ResolvePolicy"})) = 2
    /\ HasKey(resolver.accountToOU, accounts[1].ID)
    /\ ~HasKey(resolver.accountToOU, accounts[2].ID)

====
